---- MODULE Spec2Model ----
(***************************************************************************)
(* Model of the docs-sync tools of graysonhicks/dex.                       *)
(*                                                                         *)
(* createDocsPullRequestTool.execute (github-docs-tools.ts) is modelled    *)
(* call by call: every awaited Octokit request is one atomic step against  *)
(* the Git host, so that two runs of the tool interleave exactly at the    *)
(* await points of the code.  The Git host is the shared state: refs,      *)
(* commits, trees, blobs and pull requests.                                *)
(***************************************************************************)
EXTENDS Integers, Sequences, FiniteSets, TLC

\* ------------------------------------------------------------------ bounds
\* Number of pushes other parties make to the base branch in one behaviour.
MaxPushes == 1

\* The dates releases are published at are 1..MaxTime.
MaxTime == 2

\* Tag names have at most MaxTagLen characters.
MaxTagLen == 2

\* The largest maxRetries a run of the loop workflow is given.
MaxRetries == 4

\* The largest number of items in an order of the branch workflow.
MaxItems == 2

\* The guessing game: the largest maxNumber, and the most wrong guesses a
\* run is given.
MaxNumber == 3
MaxGuesses == 3

\* ------------------------------------------------------------------ inputs
\* The invocations of execute; each runs once, from its call to its return.
Runs == {"r1", "r2"}

\* Repo-relative paths a run may write, and the path only the base repo holds.
Paths == {"a.md", "b.md"}
ReadmePath == "README.md"

\* File contents as sequences of code points: "A" and "éB".
TextA == <<65>>
TextEB == <<233, 66>>

MainBranch == "main"
DocsBranch == "docs/x"
MissingBranch == "nobase"

\* context of execute (inputSchema): the contexts the runs are called with.
\* files is keyed by path (the paths of one call are distinct).
Ctx(base, branch, title, description, files) ==
    [baseBranch |-> base, branchName |-> branch, prTitle |-> title,
     prBody |-> description, files |-> files]

Contexts ==
    { Ctx(MainBranch, DocsBranch, "t1", "b1", ("a.md" :> TextA)),
      Ctx(MainBranch, DocsBranch, "t2", "b2", ("b.md" :> TextEB)),
      Ctx(MainBranch, DocsBranch, "t1", "b2", ("a.md" :> TextEB)),
      Ctx(MainBranch, DocsBranch, "t2", "b1", <<>>),
      Ctx(MainBranch, DocsBranch, "t1", "b1", ("a.md" :> TextA) @@ ("b.md" :> TextEB)),
      Ctx(MainBranch, MainBranch, "t1", "b1", ("a.md" :> TextA)),
      Ctx(MissingBranch, DocsBranch, "t1", "b1", ("a.md" :> TextA)) }

\* ------------------------------------------------------------------ encoding
\* Buffer.from(content, 'utf8'): code points below 0x800 to UTF-8 bytes.
Utf8Char(c) ==
    IF c < 128 THEN <<c>> ELSE <<192 + (c \div 64), 128 + (c % 64)>>

RECURSIVE Utf8Encode(_)
Utf8Encode(s) ==
    IF s = <<>> THEN <<>> ELSE Utf8Char(Head(s)) \o Utf8Encode(Tail(s))

\* The padding character '=' of base64, beside the sextets 0..63.
Pad == 64

\* .toString('base64'): three bytes to four sextets, padded at the end.
RECURSIVE Base64Encode(_)
Base64Encode(b) ==
    IF Len(b) = 0 THEN <<>>
    ELSE IF Len(b) = 1 THEN
        <<b[1] \div 4, (b[1] % 4) * 16, Pad, Pad>>
    ELSE IF Len(b) = 2 THEN
        <<b[1] \div 4, (b[1] % 4) * 16 + (b[2] \div 16), (b[2] % 16) * 4, Pad>>
    ELSE
        <<b[1] \div 4, (b[1] % 4) * 16 + (b[2] \div 16),
          (b[2] % 16) * 4 + (b[3] \div 64), b[3] % 64>>
        \o Base64Encode(SubSeq(b, 4, Len(b)))

\* The host's decoding of a blob sent with encoding: 'base64'.
RECURSIVE Base64Decode(_)
Base64Decode(t) ==
    IF Len(t) < 4 THEN <<>>
    ELSE
        LET b1 == t[1] * 4 + (t[2] \div 16)
            b2 == (t[2] % 16) * 16 + (t[3] \div 4)
            b3 == (t[3] % 4) * 64 + t[4]
            rest == Base64Decode(SubSeq(t, 5, Len(t)))
        IN  IF t[3] = Pad THEN <<b1>>
            ELSE IF t[4] = Pad THEN <<b1, b2>>
            ELSE <<b1, b2, b3>> \o rest

\* The base64 text sent without saying that it is base64.
BlobRequestUtf8(content) ==
    [content |-> Base64Encode(Utf8Encode(content)), encoding |-> "utf-8"]

\* The request body of createBlob.
BlobRequest(content) ==
    [content |-> Base64Encode(Utf8Encode(content)), encoding |-> "base64"]

\* What the host stores for a blob request; a blob's SHA is its content.
StoredBlob(req) ==
    IF req.encoding = "base64" THEN Base64Decode(req.content) ELSE req.content

\* ------------------------------------------------------------------ state
VARIABLES
    refs,            \* host: branch name -> commit SHA, for the branches that exist
    commits,         \* host: commit SHA (index) -> [tree, parents, message]
    trees,           \* host: the trees that exist (a tree's SHA is its mapping)
    blobs,           \* host: the blobs that exist (a blob's SHA is its bytes)
    pulls,           \* host: pull request number (index) -> pull request
    pc,              \* run -> the await the run is at
    context,         \* run -> the context of the run
    baseSha,         \* run -> baseRef.data.object.sha
    createRefErr,    \* run -> what the catch around createRef caught
    latestCommitSha, \* run -> branchRef.data.object.sha
    baseTreeSha,     \* run -> latestCommit.data.tree.sha
    pending,         \* run -> paths whose createBlob is in flight
    blobShas,        \* run -> path -> blob SHA of the resolved createBlob calls
    treeSha,         \* run -> tree.data.sha
    commitSha,       \* run -> commit.data.sha
    existing,        \* run -> prs.data[0], 0 when undefined
    result,          \* run -> the value execute returned
    err,             \* run -> the error execute threw
    pushes           \* number of pushes made to the base branch by others

hostVars == <<refs, commits, trees, blobs, pulls>>
runVars == <<pc, context, baseSha, createRefErr, latestCommitSha, baseTreeSha,
             pending, blobShas, treeSha, commitSha, existing, result, err>>

VARIABLES
    releases,        \* host: the releases of the repository, in listing order
    tagName,         \* context.tagName of the fetchReleaseContext call
    fpc,             \* the await the fetchReleaseContext call is at
    prev,            \* prev?.tag_name, Null when undefined
    requests,        \* the requests the call has sent to the host, in order
    compare,         \* compare.data, the answer to the compare request
    releaseContext,  \* the value the call returned
    fetchErr         \* the error the call threw

fetchVars == <<releases, tagName, fpc, prev, requests, compare, releaseContext,
               fetchErr>>

VARIABLES
    init,            \* getInitData(): the input of the workflow run
    stage,           \* the step the workflow run is at
    drafted,         \* the value draftDocsStep returned
    slack,           \* Slack: the messages posted, in order
    output,          \* the value the workflow returned
    flowErr          \* the step the workflow run failed at

flowVars == <<init, stage, drafted, slack, output, flowErr>>

VARIABLES
    env,             \* process.env.DOCS_BASE_BRANCH
    request,         \* the request: its x-github-event header and its body
    hpc,             \* the await the handler is at
    body,            \* what c.req.json().catch(...) gave
    inputData,       \* the inputData the handler built
    started,         \* the inputData of the run.start calls made, in order
    response         \* the response of the handler

hookVars == <<env, request, hpc, body, inputData, started, response>>

VARIABLES
    inits,           \* the inputs of two workflow runs
    branchNames      \* the branchName each of the two runs computed

nameVars == <<inits, branchNames>>

VARIABLES
    expense,         \* suspend/resume: the inputData of the run
    epc,             \* suspend/resume: the step the run is at
    analysis,        \* the value analyzeExpenseStep returned
    suspendPayload,  \* what approvalStep passed to suspend
    approval,        \* the value approvalStep returned
    expenseResult    \* the value processExpenseStep returned

expenseVars ==
    <<expense, epc, analysis, suspendPayload, approval, expenseResult>>

VARIABLES
    loopInput,       \* loop: the inputData of the run
    lpc,             \* loop: the step the run is at
    runCount,        \* the executions of attemptApiCallStep made so far
    attempt,         \* the value the last step of the loop returned
    loopResult,      \* the value formatResultStep returned
    loopError        \* the error attemptApiCallStep threw

loopVars == <<loopInput, lpc, runCount, attempt, loopResult, loopError>>

VARIABLES
    order,           \* branch: the inputData of the run
    bpc,             \* branch: the step the run is at
    calculated,      \* the value calculateStep returned
    branchInput,     \* the value the map returned
    branchResult     \* step id -> the value the step returned, for the steps run

orderVars == <<order, bpc, calculated, branchInput, branchResult>>

VARIABLES
    errorInput,      \* error handling: the inputData of the run
    xpc,             \* error handling: the step the run is at
    rateLimit,       \* the value checkRateLimitStep returned or bailed with
    mainTries,       \* the executions of main-processing made so far
    fetchTries,      \* the executions of fetch-data in this main-processing
    fetchRuns,       \* the executions of fetch-data made in the whole run
    processRuns,     \* the executions of process-data made in the whole run
    errorResult      \* the status and result of the run

errorVars ==
    <<errorInput, xpc, rateLimit, mainTries, fetchTries, fetchRuns, processRuns,
      errorResult>>

VARIABLES
    gameInput,       \* guessing game: the inputData of the run
    gpc,             \* guessing game: the step the run is at
    game,            \* the inputData of gameLoopStep: the last output in the loop
    guesses,         \* the guesses the resumes have submitted, in order
    suspends,        \* the number of times gameLoopStep has suspended
    summary          \* the value gameSummaryStep returned

gameVars == <<gameInput, gpc, game, guesses, suspends, summary>>

docsVars == <<hostVars, runVars, pushes, fetchVars, flowVars, hookVars, nameVars>>
exampleVars == <<expenseVars, loopVars, orderVars, errorVars, gameVars>>

vars == <<docsVars, exampleVars>>

\* A step of createDocsPullRequestTool.execute, of fetchReleaseContextTool.execute.
OnlyTool == UNCHANGED <<fetchVars, flowVars, hookVars, nameVars, exampleVars>>
OnlyFetch ==
    UNCHANGED <<hostVars, runVars, pushes, flowVars, hookVars, nameVars,
                exampleVars>>
OnlyFlow == UNCHANGED <<hookVars, nameVars, exampleVars>>
OnlyHook ==
    UNCHANGED <<hostVars, runVars, pushes, fetchVars, flowVars, nameVars,
                exampleVars>>
OnlyNames ==
    UNCHANGED <<hostVars, runVars, pushes, fetchVars, flowVars, hookVars,
                exampleVars>>

\* A step of one of the example workflows.
OnlyExpense == UNCHANGED <<docsVars, loopVars, orderVars, errorVars, gameVars>>
OnlyLoop == UNCHANGED <<docsVars, expenseVars, orderVars, errorVars, gameVars>>
OnlyOrder == UNCHANGED <<docsVars, expenseVars, loopVars, errorVars, gameVars>>
OnlyError == UNCHANGED <<docsVars, expenseVars, loopVars, orderVars, gameVars>>
OnlyGame == UNCHANGED <<docsVars, expenseVars, loopVars, orderVars, errorVars>>

NoSha == 0
NoTree == <<>>
NoErr == [kind |-> "none", at |-> "none"]
NoResult == [prNumber |-> 0, prUrl |-> <<>>, branchName |-> "none"]
NoContext == Ctx(MainBranch, DocsBranch, "t1", "b1", <<>>)

\* pr.html_url of pull request n.
HtmlUrl(n) == <<"pull", n>>

\* null and undefined, where a string is expected.
Null == "null"

\* No comparison was answered.
NoCompare == [status |-> "none"]

\* No ReleaseContext was returned.
NoReleaseContext ==
    [releaseNotes |-> "", currentTag |-> "", previousTag |-> Null,
     diffFiles |-> <<>>]

\* ------------------------------------------------------------------ the host
RootTree == (ReadmePath :> <<82>>)
PushedReadme == <<83>>

\* createTree without base_tree: the tree holds the entries alone.
OverlayNoBase(base, entries) == entries

\* createTree that keeps the base tree's blob for a path the base tree holds.
OverlayKeep(base, entries) ==
    [p \in (DOMAIN base) \cup (DOMAIN entries) |->
        IF p \in DOMAIN base THEN base[p] ELSE entries[p]]

\* createTree with base_tree: the entries laid over the base tree.
Overlay(base, entries) ==
    [p \in (DOMAIN base) \cup (DOMAIN entries) |->
        IF p \in DOMAIN entries THEN entries[p] ELSE base[p]]

TreeOf(sha) == commits[sha].tree

RECURSIVE IsAncestor(_, _)
\* a is b or is reachable from b through parents.
IsAncestor(a, b) ==
    IF a = b THEN TRUE
    ELSE \E i \in 1..Len(commits[b].parents) : IsAncestor(a, commits[b].parents[i])

\* The repository holds one pull request from the docs branch, closed earlier.
ClosedPull ==
    [head |-> DocsBranch, base |-> MainBranch, title |-> "t1", body |-> "b1",
     state |-> "closed"]

\* pulls.list({state: 'open', head}): newest first.
OpenPulls(head) ==
    {n \in 1..Len(pulls) : pulls[n].state = "open" /\ pulls[n].head = head}

Max(S) == CHOOSE n \in S : \A m \in S : m <= n

InitTool ==
    /\ refs = (MainBranch :> 1)
    /\ commits = <<[tree |-> RootTree, parents |-> <<>>, message |-> "init"]>>
    /\ trees = {RootTree}
    /\ blobs = {RootTree[ReadmePath]}
    /\ pulls = <<ClosedPull>>
    /\ pc = [r \in Runs |-> "idle"]
    /\ context = [r \in Runs |-> NoContext]
    /\ baseSha = [r \in Runs |-> NoSha]
    /\ createRefErr = [r \in Runs |-> "none"]
    /\ latestCommitSha = [r \in Runs |-> NoSha]
    /\ baseTreeSha = [r \in Runs |-> NoTree]
    /\ pending = [r \in Runs |-> {}]
    /\ blobShas = [r \in Runs |-> <<>>]
    /\ treeSha = [r \in Runs |-> NoTree]
    /\ commitSha = [r \in Runs |-> NoSha]
    /\ existing = [r \in Runs |-> 0]
    /\ result = [r \in Runs |-> NoResult]
    /\ err = [r \in Runs |-> NoErr]
    /\ pushes = 0

\* No call of fetchReleaseContext is made.
InitFetchIdle ==
    /\ releases = <<>>
    /\ tagName = Null
    /\ fpc = "idle"
    /\ prev = Null
    /\ requests = <<>>
    /\ compare = NoCompare
    /\ releaseContext = NoReleaseContext
    /\ fetchErr = NoErr

\* An input of the workflow; baseBranch and docsBranchPrefix at their
\* defaults, the repository and the tag as their characters.
Input(tag) ==
    [owner |-> "o", repo |-> <<"d", "e", "x">>, tagName |-> tag,
     baseBranch |-> MainBranch, docsBranchPrefix |-> "docs/update-",
     slackChannel |-> "#docs"]
NoInput == Input(<<>>)
NoDraft == [files |-> <<>>, prTitle |-> "", prBody |-> Null]
NoOutput == [prUrl |-> <<>>]

\* No run of the workflow is made.
InitFlowIdle ==
    /\ init = NoInput
    /\ stage = "idle"
    /\ drafted = NoDraft
    /\ slack = <<>>
    /\ output = NoOutput
    /\ flowErr = "none"

\* No request, no inputData, no response.
NoRequest == [event |-> Null, body |-> [kind |-> "none"]]
NoInputData == [owner |-> Null, repo |-> Null]
NoResponse == [status |-> 0, text |-> ""]

\* No request has reached the handler.
InitHookIdle ==
    /\ env = Null
    /\ request = NoRequest
    /\ hpc = "idle"
    /\ body = [kind |-> "null"]
    /\ inputData = NoInputData
    /\ started = <<>>
    /\ response = NoResponse

\* No branch name is being computed.
InitNamesIdle ==
    /\ inits = <<NoInput, NoInput>>
    /\ branchNames = <<>>

\* undefined, where an object is expected.
Undefined == [undefined |-> TRUE]

\* No run of the suspend/resume workflow is made.
InitExpenseIdle ==
    /\ expense = Undefined
    /\ epc = "idle"
    /\ analysis = Undefined
    /\ suspendPayload = Undefined
    /\ approval = Undefined
    /\ expenseResult = Undefined

\* No run of the loop workflow is made.
InitLoopIdle ==
    /\ loopInput = Undefined
    /\ lpc = "idle"
    /\ runCount = 0
    /\ attempt = Undefined
    /\ loopResult = Undefined
    /\ loopError = <<>>

\* No run of the branch workflow is made.
InitOrderIdle ==
    /\ order = Undefined
    /\ bpc = "idle"
    /\ calculated = Undefined
    /\ branchInput = Undefined
    /\ branchResult = <<>>

\* No run of the error-handling workflow is made.
InitErrorIdle ==
    /\ errorInput = Undefined
    /\ xpc = "idle"
    /\ rateLimit = Undefined
    /\ mainTries = 0
    /\ fetchTries = 0
    /\ fetchRuns = 0
    /\ processRuns = 0
    /\ errorResult = Undefined

\* No run of the human-in-the-loop workflow is made.
InitGameIdle ==
    /\ gameInput = Undefined
    /\ gpc = "idle"
    /\ game = Undefined
    /\ guesses = <<>>
    /\ suspends = 0
    /\ summary = Undefined

InitExamplesIdle ==
    /\ InitExpenseIdle
    /\ InitLoopIdle
    /\ InitOrderIdle
    /\ InitErrorIdle
    /\ InitGameIdle

Init ==
    /\ InitTool
    /\ InitExamplesIdle
    /\ InitFetchIdle /\ InitFlowIdle /\ InitHookIdle /\ InitNamesIdle

\* No call of the docs tools, no run of the docs workflow, no webhook.
InitDocsIdle ==
    InitTool /\ InitFetchIdle /\ InitFlowIdle /\ InitHookIdle /\ InitNamesIdle



\* ------------------------------------------------------------------ execute
\* A rejected await: execute throws, nothing after it runs.
Throw(r, kind, at) ==
    /\ pc' = [pc EXCEPT ![r] = "failed"]
    /\ err' = [err EXCEPT ![r] = [kind |-> kind, at |-> at]]

\* execute is called with a context.
Start(r, ctx) ==
    /\ pc[r] = "idle"
    /\ pc' = [pc EXCEPT ![r] = "getBaseRef"]
    /\ context' = [context EXCEPT ![r] = ctx]
    /\ baseSha' = [baseSha EXCEPT ![r] = NoSha]
    /\ createRefErr' = [createRefErr EXCEPT ![r] = "none"]
    /\ latestCommitSha' = [latestCommitSha EXCEPT ![r] = NoSha]
    /\ baseTreeSha' = [baseTreeSha EXCEPT ![r] = NoTree]
    /\ pending' = [pending EXCEPT ![r] = {}]
    /\ blobShas' = [blobShas EXCEPT ![r] = <<>>]
    /\ treeSha' = [treeSha EXCEPT ![r] = NoTree]
    /\ commitSha' = [commitSha EXCEPT ![r] = NoSha]
    /\ existing' = [existing EXCEPT ![r] = 0]
    /\ result' = [result EXCEPT ![r] = NoResult]
    /\ err' = [err EXCEPT ![r] = NoErr]
    /\ UNCHANGED <<hostVars, pushes>>

\* getRef that falls back to the default branch when the base is missing.
GetBaseRefDefault(r) ==
    /\ pc[r] = "getBaseRef"
    /\ baseSha' = [baseSha EXCEPT ![r] =
                     IF context[r].baseBranch \in DOMAIN refs
                     THEN refs[context[r].baseBranch]
                     ELSE refs[MainBranch]]
    /\ pc' = [pc EXCEPT ![r] = "createRef"]
    /\ UNCHANGED <<hostVars, context, createRefErr, latestCommitSha, baseTreeSha,
                   pending, blobShas, treeSha, commitSha, existing, result, err,
                   pushes>>

\* git.getRef(heads/baseBranch): 404 when the base branch does not exist.
GetBaseRef(r) ==
    /\ pc[r] = "getBaseRef"
    /\ IF context[r].baseBranch \in DOMAIN refs
       THEN /\ baseSha' = [baseSha EXCEPT ![r] = refs[context[r].baseBranch]]
            /\ pc' = [pc EXCEPT ![r] = "createRef"]
            /\ UNCHANGED err
       ELSE /\ Throw(r, "NotFound", "getBaseRef")
            /\ UNCHANGED baseSha
    /\ UNCHANGED <<hostVars, context, createRefErr, latestCommitSha, baseTreeSha,
                   pending, blobShas, treeSha, commitSha, existing, result,
                   pushes>>

\* catch (_) { } around createRef: whatever was thrown, go on to getRef.
CatchCreateRef(r, e) ==
    /\ createRefErr' = [createRefErr EXCEPT ![r] = e]
    /\ pc' = [pc EXCEPT ![r] = "getBranchRef"]
    /\ UNCHANGED err

\* createRef that resets an existing branch to the base head.
CreateRefReset(r) ==
    /\ pc[r] = "createRef"
    /\ refs' = (context[r].branchName :> baseSha[r]) @@ refs
    /\ createRefErr' = [createRefErr EXCEPT ![r] = "none"]
    /\ pc' = [pc EXCEPT ![r] = "getBranchRef"]
    /\ UNCHANGED <<commits, trees, blobs, pulls, context, baseSha,
                   latestCommitSha, baseTreeSha, pending, blobShas, treeSha,
                   commitSha, existing, result, err, pushes>>

\* git.createRef(refs/heads/branchName, baseSha): the host creates the ref, or
\* answers 422 when the ref exists.
CreateRef(r) ==
    /\ pc[r] = "createRef"
    /\ IF context[r].branchName \in DOMAIN refs
       THEN /\ CatchCreateRef(r, "exists")
            /\ UNCHANGED refs
       ELSE /\ refs' = (context[r].branchName :> baseSha[r]) @@ refs
            /\ createRefErr' = [createRefErr EXCEPT ![r] = "none"]
            /\ pc' = [pc EXCEPT ![r] = "getBranchRef"]
            /\ UNCHANGED err
    /\ UNCHANGED <<commits, trees, blobs, pulls, context, baseSha,
                   latestCommitSha, baseTreeSha, pending, blobShas, treeSha,
                   commitSha, existing, result, pushes>>

\* git.createRef fails for another reason (transport, permission): nothing is
\* created on the host and the catch receives that error.
CreateRefFails(r) ==
    /\ pc[r] = "createRef"
    /\ CatchCreateRef(r, "other")
    /\ UNCHANGED <<hostVars, context, baseSha, latestCommitSha, baseTreeSha,
                   pending, blobShas, treeSha, commitSha, existing, result,
                   pushes>>

\* git.getRef(heads/branchName)
GetBranchRef(r) ==
    /\ pc[r] = "getBranchRef"
    /\ IF context[r].branchName \in DOMAIN refs
       THEN /\ latestCommitSha' =
                  [latestCommitSha EXCEPT ![r] = refs[context[r].branchName]]
            /\ pc' = [pc EXCEPT ![r] = "getCommit"]
            /\ UNCHANGED err
       ELSE /\ Throw(r, "NotFound", "getBranchRef")
            /\ UNCHANGED latestCommitSha
    /\ UNCHANGED <<hostVars, context, baseSha, createRefErr, baseTreeSha,
                   pending, blobShas, treeSha, commitSha, existing, result,
                   pushes>>

\* git.getCommit(latestCommitSha); then files.map issues every createBlob.
GetCommit(r) ==
    /\ pc[r] = "getCommit"
    /\ baseTreeSha' = [baseTreeSha EXCEPT ![r] = TreeOf(latestCommitSha[r])]
    /\ pending' = [pending EXCEPT ![r] = DOMAIN context[r].files]
    /\ pc' = [pc EXCEPT ![r] = "createBlobs"]
    /\ UNCHANGED <<hostVars, context, baseSha, createRefErr, latestCommitSha,
                   blobShas, treeSha, commitSha, existing, result, err,
                   pushes>>

\* One git.createBlob resolves. After Promise.all has rejected, the requests
\* still in flight reach the host all the same; their results are dropped.
CreateBlob(r, path) ==
    /\ pc[r] \in {"createBlobs", "failed"}
    /\ path \in pending[r]
    /\ LET sha == StoredBlob(BlobRequest(context[r].files[path]))
       IN  /\ blobs' = blobs \cup {sha}
           /\ blobShas' = IF pc[r] = "createBlobs"
                          THEN [blobShas EXCEPT ![r] = (path :> sha) @@ @]
                          ELSE blobShas
    /\ pending' = [pending EXCEPT ![r] = @ \ {path}]
    /\ UNCHANGED <<refs, commits, trees, pulls, pc, context, baseSha,
                   createRefErr, latestCommitSha, baseTreeSha, treeSha,
                   commitSha, existing, result, err, pushes>>

\* A rejected createBlob that is dropped instead of rejecting Promise.all.
CreateBlobFailsSettled(r, path) ==
    /\ pc[r] = "createBlobs"
    /\ path \in pending[r]
    /\ pending' = [pending EXCEPT ![r] = @ \ {path}]
    /\ UNCHANGED <<hostVars, pc, err, context, baseSha, createRefErr,
                   latestCommitSha, baseTreeSha, blobShas, treeSha, commitSha,
                   existing, result, pushes>>

\* One git.createBlob rejects: Promise.all rejects with it at once.
CreateBlobFails(r, path) ==
    /\ pc[r] = "createBlobs"
    /\ path \in pending[r]
    /\ pending' = [pending EXCEPT ![r] = @ \ {path}]
    /\ Throw(r, "Upstream", "createBlob")
    /\ UNCHANGED <<hostVars, context, baseSha, createRefErr, latestCommitSha,
                   baseTreeSha, blobShas, treeSha, commitSha, existing, result,
                   pushes>>

\* git.createTree({base_tree: baseTreeSha, tree: blobs}), once every blob is in.
\* The tree requested while blob creations are still in flight.
CreateTreeEarly(r) ==
    /\ pc[r] = "createBlobs"
    /\ LET tree == Overlay(baseTreeSha[r], blobShas[r])
       IN  /\ trees' = trees \cup {tree}
           /\ treeSha' = [treeSha EXCEPT ![r] = tree]
    /\ pc' = [pc EXCEPT ![r] = "createCommit"]
    /\ UNCHANGED <<refs, commits, blobs, pulls, context, baseSha, createRefErr,
                   latestCommitSha, baseTreeSha, pending, blobShas, commitSha,
                   existing, result, err, pushes>>

\* createTree sent without waiting for the blobs, with SHAs computed locally.
CreateTreeUnawaited(r) ==
    /\ pc[r] = "createBlobs"
    /\ LET shas == [path \in DOMAIN context[r].files |->
                       StoredBlob(BlobRequest(context[r].files[path]))]
           tree == Overlay(baseTreeSha[r], shas)
       IN  /\ trees' = trees \cup {tree}
           /\ treeSha' = [treeSha EXCEPT ![r] = tree]
    /\ pc' = [pc EXCEPT ![r] = "createCommit"]
    /\ UNCHANGED <<refs, commits, blobs, pulls, context, baseSha, createRefErr,
                   latestCommitSha, baseTreeSha, pending, blobShas, commitSha,
                   existing, result, err, pushes>>

CreateTree(r) ==
    /\ pc[r] = "createBlobs"
    /\ pending[r] = {}
    /\ LET tree == Overlay(baseTreeSha[r], blobShas[r])
       IN  /\ trees' = trees \cup {tree}
           /\ treeSha' = [treeSha EXCEPT ![r] = tree]
    /\ pc' = [pc EXCEPT ![r] = "createCommit"]
    /\ UNCHANGED <<refs, commits, blobs, pulls, context, baseSha, createRefErr,
                   latestCommitSha, baseTreeSha, pending, blobShas, commitSha,
                   existing, result, err, pushes>>

\* createCommit with the base branch's head as parent.
CreateCommitOnBase(r) ==
    /\ pc[r] = "createCommit"
    /\ commits' = Append(commits,
                         [tree |-> treeSha[r],
                          parents |-> <<baseSha[r]>>,
                          message |-> context[r].prTitle])
    /\ commitSha' = [commitSha EXCEPT ![r] = Len(commits) + 1]
    /\ pc' = [pc EXCEPT ![r] = "updateRef"]
    /\ UNCHANGED <<refs, trees, blobs, pulls, context, baseSha, createRefErr,
                   latestCommitSha, baseTreeSha, pending, blobShas, treeSha,
                   existing, result, err, pushes>>

\* createCommit without parents: a root commit.
CreateCommitRoot(r) ==
    /\ pc[r] = "createCommit"
    /\ commits' = Append(commits,
                         [tree |-> treeSha[r],
                          parents |-> <<>>,
                          message |-> context[r].prTitle])
    /\ commitSha' = [commitSha EXCEPT ![r] = Len(commits) + 1]
    /\ pc' = [pc EXCEPT ![r] = "updateRef"]
    /\ UNCHANGED <<refs, trees, blobs, pulls, context, baseSha, createRefErr,
                   latestCommitSha, baseTreeSha, pending, blobShas, treeSha,
                   existing, result, err, pushes>>

\* git.createCommit({message: prTitle, tree, parents: [latestCommitSha]})
CreateCommit(r) ==
    /\ pc[r] = "createCommit"
    /\ commits' = Append(commits,
                         [tree |-> treeSha[r],
                          parents |-> <<latestCommitSha[r]>>,
                          message |-> context[r].prTitle])
    /\ commitSha' = [commitSha EXCEPT ![r] = Len(commits) + 1]
    /\ pc' = [pc EXCEPT ![r] = "updateRef"]
    /\ UNCHANGED <<refs, trees, blobs, pulls, context, baseSha, createRefErr,
                   latestCommitSha, baseTreeSha, pending, blobShas, treeSha,
                   existing, result, err, pushes>>

\* updateRef without force: refused unless the head is still the one read.
UpdateRefFastForward(r) ==
    /\ pc[r] = "updateRef"
    /\ context[r].branchName \in DOMAIN refs
    /\ IF refs[context[r].branchName] = latestCommitSha[r]
       THEN /\ refs' = [refs EXCEPT ![context[r].branchName] = commitSha[r]]
            /\ pc' = [pc EXCEPT ![r] = "listPulls"]
            /\ UNCHANGED err
       ELSE /\ pc' = [pc EXCEPT ![r] = "failed"]
            /\ err' = [err EXCEPT ![r] =
                         [kind |-> "Unprocessable", at |-> "updateRef"]]
            /\ UNCHANGED refs
    /\ UNCHANGED <<commits, trees, blobs, pulls, context, baseSha, createRefErr,
                   latestCommitSha, baseTreeSha, pending, blobShas, treeSha,
                   commitSha, existing, result, pushes>>

\* updateRef skipped when the new tree equals the tree read.
UpdateRefSkipUnchanged(r) ==
    /\ pc[r] = "updateRef"
    /\ context[r].branchName \in DOMAIN refs
    /\ refs' = IF treeSha[r] = baseTreeSha[r]
               THEN refs
               ELSE [refs EXCEPT ![context[r].branchName] = commitSha[r]]
    /\ pc' = [pc EXCEPT ![r] = "listPulls"]
    /\ UNCHANGED <<commits, trees, blobs, pulls, context, baseSha, createRefErr,
                   latestCommitSha, baseTreeSha, pending, blobShas, treeSha,
                   commitSha, existing, result, err, pushes>>

\* git.updateRef(heads/branchName, commit.sha, force: true): the host moves
\* the ref wherever it points now.
\* The ref update that moves the base branch along with the branch.
UpdateRefAndBase(r) ==
    /\ pc[r] = "updateRef"
    /\ context[r].branchName \in DOMAIN refs
    /\ refs' = [b \in DOMAIN refs |->
                  IF b \in {context[r].branchName, context[r].baseBranch}
                  THEN commitSha[r] ELSE refs[b]]
    /\ pc' = [pc EXCEPT ![r] = "listPulls"]
    /\ UNCHANGED <<commits, trees, blobs, pulls, context, baseSha, createRefErr,
                   latestCommitSha, baseTreeSha, pending, blobShas, treeSha,
                   commitSha, existing, result, err, pushes>>

UpdateRef(r) ==
    /\ pc[r] = "updateRef"
    /\ context[r].branchName \in DOMAIN refs
    /\ refs' = [refs EXCEPT ![context[r].branchName] = commitSha[r]]
    /\ pc' = [pc EXCEPT ![r] = "listPulls"]
    /\ UNCHANGED <<commits, trees, blobs, pulls, context, baseSha, createRefErr,
                   latestCommitSha, baseTreeSha, pending, blobShas, treeSha,
                   commitSha, existing, result, err, pushes>>

\* return { prNumber: pr.number, prUrl: pr.html_url, branchName }
Return(r, n) ==
    /\ result' = [result EXCEPT ![r] =
                    [prNumber |-> n, prUrl |-> HtmlUrl(n),
                     branchName |-> context[r].branchName]]
    /\ pc' = [pc EXCEPT ![r] = "done"]

\* prs.data[0] of pulls.list({state: 'open', head: owner:branchName}).
FirstOpenPull(head) ==
    IF OpenPulls(head) = {} THEN 0 ELSE Max(OpenPulls(head))

\* The lookup keyed by title and head instead of head alone.
ListPullsByTitle(r) ==
    /\ pc[r] = "listPulls"
    /\ LET same == {n \in OpenPulls(context[r].branchName) :
                       pulls[n].title = context[r].prTitle}
           found == IF same = {} THEN 0 ELSE Max(same)
       IN  /\ existing' = [existing EXCEPT ![r] = found]
           /\ IF found # 0
              THEN /\ result' = [result EXCEPT ![r] =
                                   [prNumber |-> found, prUrl |-> <<"pull", found>>,
                                    branchName |-> context[r].branchName]]
                   /\ pc' = [pc EXCEPT ![r] = "done"]
              ELSE /\ pc' = [pc EXCEPT ![r] = "createPull"]
                   /\ UNCHANGED result
    /\ UNCHANGED <<hostVars, context, baseSha, createRefErr, latestCommitSha,
                   baseTreeSha, pending, blobShas, treeSha, commitSha, err,
                   pushes>>

\* The lookup that also refreshes the title and body of the one it finds.
ListPullsRefresh(r) ==
    /\ pc[r] = "listPulls"
    /\ LET found == FirstOpenPull(context[r].branchName)
       IN  /\ existing' = [existing EXCEPT ![r] = found]
           /\ IF found # 0
              THEN /\ Return(r, found)
                   /\ pulls' = [pulls EXCEPT ![found].title = context[r].prTitle,
                                             ![found].body = context[r].prBody]
              ELSE /\ pc' = [pc EXCEPT ![r] = "createPull"]
                   /\ UNCHANGED <<result, pulls>>
    /\ UNCHANGED <<refs, commits, trees, blobs, context, baseSha, createRefErr,
                   latestCommitSha, baseTreeSha, pending, blobShas, treeSha,
                   commitSha, err, pushes>>

\* pulls.list, then existing || pulls.create
ListPulls(r) ==
    /\ pc[r] = "listPulls"
    /\ LET found == FirstOpenPull(context[r].branchName)
       IN  /\ existing' = [existing EXCEPT ![r] = found]
           /\ IF found # 0
              THEN Return(r, found)
              ELSE /\ pc' = [pc EXCEPT ![r] = "createPull"]
                   /\ UNCHANGED result
    /\ UNCHANGED <<hostVars, context, baseSha, createRefErr, latestCommitSha,
                   baseTreeSha, pending, blobShas, treeSha, commitSha, err,
                   pushes>>

\* The host refuses a pull request whose head is its base, and a second open
\* pull request for the same head and base (422).
PullRefused(head, base) ==
    \/ head = base
    \/ \E n \in OpenPulls(head) : pulls[n].base = base

\* pulls.create with head and base the wrong way round.
CreatePullSwapped(r) ==
    /\ pc[r] = "createPull"
    /\ IF PullRefused(context[r].branchName, context[r].baseBranch)
       THEN /\ Throw(r, "Unprocessable", "createPull")
            /\ UNCHANGED <<pulls, result>>
       ELSE /\ pulls' = Append(pulls,
                               [head |-> context[r].baseBranch,
                                base |-> context[r].branchName,
                                title |-> context[r].prTitle,
                                body |-> context[r].prBody,
                                state |-> "open"])
            /\ Return(r, Len(pulls) + 1)
            /\ UNCHANGED err
    /\ UNCHANGED <<refs, commits, trees, blobs, context, baseSha, createRefErr,
                   latestCommitSha, baseTreeSha, pending, blobShas, treeSha,
                   commitSha, existing, pushes>>

\* pulls.create({head: branchName, base: baseBranch, title, body})
CreatePull(r) ==
    /\ pc[r] = "createPull"
    /\ IF PullRefused(context[r].branchName, context[r].baseBranch)
       THEN /\ Throw(r, "Unprocessable", "createPull")
            /\ UNCHANGED <<pulls, result>>
       ELSE /\ pulls' = Append(pulls,
                               [head |-> context[r].branchName,
                                base |-> context[r].baseBranch,
                                title |-> context[r].prTitle,
                                body |-> context[r].prBody,
                                state |-> "open"])
            /\ Return(r, Len(pulls) + 1)
            /\ UNCHANGED err
    /\ UNCHANGED <<refs, commits, trees, blobs, context, baseSha, createRefErr,
                   latestCommitSha, baseTreeSha, pending, blobShas, treeSha,
                   commitSha, existing, pushes>>

\* The awaits whose rejection execute does not catch (createRef and the blob
\* fan-out have their own steps above).
Awaits ==
    {"getBaseRef", "getBranchRef", "getCommit", "createCommit", "updateRef",
     "listPulls", "createPull"}

\* A request fails in transport or on the host: the await rejects.
RequestFails(r) ==
    /\ \/ /\ pc[r] \in Awaits
          /\ Throw(r, "Upstream", pc[r])
       \/ /\ pc[r] = "createBlobs"
          /\ pending[r] = {}
          /\ Throw(r, "Upstream", "createTree")
    /\ UNCHANGED <<hostVars, context, baseSha, createRefErr, latestCommitSha,
                   baseTreeSha, pending, blobShas, treeSha, commitSha, existing,
                   result, pushes>>

\* Somebody else pushes a commit to the base branch.
Push ==
    /\ pushes < MaxPushes
    /\ pushes' = pushes + 1
    /\ LET tree == Overlay(TreeOf(refs[MainBranch]), (ReadmePath :> PushedReadme))
       IN  /\ blobs' = blobs \cup {PushedReadme}
           /\ trees' = trees \cup {tree}
           /\ commits' = Append(commits,
                                [tree |-> tree,
                                 parents |-> <<refs[MainBranch]>>,
                                 message |-> "push"])
           /\ refs' = [refs EXCEPT ![MainBranch] = Len(commits) + 1]
    /\ UNCHANGED <<pulls, runVars>>

Step(r) ==
    \/ GetBaseRef(r)
    \/ CreateRef(r)
    \/ CreateRefFails(r)
    \/ GetBranchRef(r)
    \/ GetCommit(r)
    \/ \E path \in Paths : CreateBlob(r, path)
    \/ \E path \in Paths : CreateBlobFails(r, path)
    \/ CreateTree(r)
    \/ CreateCommit(r)
    \/ UpdateRef(r)
    \/ ListPulls(r)
    \/ CreatePull(r)
    \/ RequestFails(r)

\* Runs of execute interleave freely at their awaits.
Next ==
    \/ \E r \in Runs, ctx \in Contexts : Start(r, ctx) /\ OnlyTool
    \/ \E r \in Runs : Step(r) /\ OnlyTool
    \/ Push /\ OnlyTool

Spec == Init /\ [][Next]_vars

\* No run is between its call and its return.
Quiescent == \A r \in Runs : pc[r] \in {"idle", "done", "failed"}

\* Runs of execute that do not overlap: a run starts when no other is under way.
NextSeq ==
    \/ \E r \in Runs, ctx \in Contexts :
          Quiescent /\ Start(r, ctx) /\ OnlyTool
    \/ \E r \in Runs : Step(r) /\ OnlyTool
    \/ Push /\ OnlyTool

SpecSeq == Init /\ [][NextSeq]_vars

\* ---------------------------------------------------------------------------
\* fetchReleaseContextTool.execute
\* ---------------------------------------------------------------------------

\* The tags a release can carry.
Tags == {"v1", "v2", "v3"}

\* published_at of a release that is not published.
Unpublished == 0

\* A release as listReleases returns it; published_at is a date, counted in
\* days, and the body of a release may be null.
Release(tag, at) ==
    [tag_name |-> tag,
     published_at |-> at,
     body |-> IF tag = "v1" THEN Null ELSE "Notes " \o tag]

\* The release lists of a repository: no two releases carry the same tag.
ReleaseLists ==
    UNION { { s \in [1..n -> { Release(t, at) : t \in Tags,
                                                at \in Unpublished..MaxTime }] :
                \A i, j \in 1..n : s[i].tag_name = s[j].tag_name => i = j }
            : n \in 0..Cardinality(Tags) }

\* listReleases({per_page: 100}) returns the first page.
PerPage == 100
Page(list) ==
    IF Len(list) <= PerPage THEN list ELSE SubSeq(list, 1, PerPage)

\* A lookup that falls back on the first release of the list.
FindOrFirst(data, tag) ==
    LET hits == { i \in 1..Len(data) : data[i].tag_name = tag }
    IN  IF hits = {} THEN (IF data = <<>> THEN 0 ELSE 1)
        ELSE CHOOSE i \in hits : \A j \in hits : i <= j

\* releases.data.find((r) => r.tag_name === tagName): 0 when undefined.
Find(data, tag) ==
    LET hits == { i \in 1..Len(data) : data[i].tag_name = tag }
    IN  IF hits = {} THEN 0 ELSE CHOOSE i \in hits : \A j \in hits : i <= j

\* new Date(published_at).getTime()
MsPerDay == 86400000
GetTime(at) == at * MsPerDay

\* The comparator of a descending sort.
CompareDescending(a, b) == GetTime(b.published_at) - GetTime(a.published_at)

\* (a, b) => getTime(a.published_at) - getTime(b.published_at)
Compare(a, b) == GetTime(a.published_at) - GetTime(b.published_at)

\* One step of a sort that puts an element before its equals.
InsertBeforeEquals(s, x) ==
    LET k == Cardinality({ i \in 1..Len(s) : Compare(s[i], x) < 0 })
    IN  SubSeq(s, 1, k) \o <<x>> \o SubSeq(s, k + 1, Len(s))

\* Array.prototype.sort is stable: an element goes after those that do not
\* compare greater.
Insert(s, x) ==
    LET k == Cardinality({ i \in 1..Len(s) : Compare(s[i], x) <= 0 })
    IN  SubSeq(s, 1, k) \o <<x>> \o SubSeq(s, k + 1, Len(s))

RECURSIVE Sort(_)
Sort(s) ==
    IF s = <<>> THEN <<>>
    ELSE Insert(Sort(SubSeq(s, 1, Len(s) - 1)), s[Len(s)])

\* A filter that keeps the releases that are not published as well.
KeepAll(data) == data

\* releases.data.filter((r) => !!r.published_at)
Published(data) == SelectSeq(data, LAMBDA r : r.published_at # Unpublished)

Sorted(data) == Sort(Published(data))

\* sorted.findIndex((r) => r.tag_name === tagName), counted from 0; -1 if none.
FindIndex(s, tag) == Find(s, tag) - 1

\* The previous release taken as the one at idx, one place too far.
PrevTagAtIdx(data, tag) ==
    LET sorted == Sorted(data)
        idx == FindIndex(sorted, tag)
    IN  IF idx >= 0 THEN sorted[idx + 1].tag_name ELSE Null

\* idx > 0 ? sorted[idx - 1] : undefined, then prev?.tag_name
PrevTag(data, tag) ==
    LET sorted == Sorted(data)
        idx == FindIndex(sorted, tag)
    IN  IF idx > 0 THEN sorted[idx].tag_name ELSE Null

\* What compareCommitsWithBasehead can answer: files may be missing, and a
\* file may come without status, counts or patch.
FileA ==
    [filename |-> "README.md", status |-> "added", additions |-> 2,
     deletions |-> 1, changes |-> 3, patch |-> "@@"]
FileB == [filename |-> "src/a.ts"]
CompareResponses ==
    { [status |-> "identical"],
      [status |-> "identical", files |-> <<>>],
      [status |-> "ahead", files |-> <<FileA>>],
      [status |-> "ahead", files |-> <<FileB, FileA>>] }

\* f.status || 'modified', f.additions || 0, ..., patch: f.patch
DiffFile(f) ==
    LET OrZero(field) == IF field \in DOMAIN f THEN f[field] ELSE 0
        entry == [filename |-> f.filename,
                  status |-> IF "status" \in DOMAIN f /\ f.status # ""
                             THEN f.status ELSE "modified",
                  additions |-> OrZero("additions"),
                  deletions |-> OrZero("deletions"),
                  changes |-> OrZero("changes")]
    IN  IF "patch" \in DOMAIN f THEN entry @@ [patch |-> f.patch] ELSE entry

\* (compare.data.files || []).map(...)
DiffFiles(data) ==
    IF "files" \in DOMAIN data
    THEN [i \in 1..Len(data.files) |-> DiffFile(data.files[i])]
    ELSE <<>>

FetchThrow(kind, at, message) ==
    /\ fpc' = "failed"
    /\ fetchErr' = [kind |-> kind, at |-> at, message |-> message]

\* return { releaseNotes: current.body || '', currentTag, previousTag, diffFiles }
FetchReturn(current, previousTag, files) ==
    /\ fpc' = "done"
    /\ releaseContext' =
           [releaseNotes |-> IF current.body \in {Null, ""} THEN ""
                             ELSE current.body,
            currentTag |-> tagName,
            previousTag |-> previousTag,
            diffFiles |-> files]

\* execute is called with context.tagName = tag.
FetchStart(tag) ==
    /\ fpc = "idle"
    /\ tagName' = tag
    /\ fpc' = "listReleases"
    /\ UNCHANGED <<releases, prev, requests, compare, releaseContext, fetchErr>>

\* listReleases answers, and the comparison is requested whatever prev is.
ListReleasesThenCompare ==
    /\ fpc = "listReleases"
    /\ requests' = Append(requests, [api |-> "listReleases",
                                     per_page |-> PerPage])
    /\ LET data == Page(releases)
           current == Find(data, tagName)
       IN  IF current = 0
           THEN /\ FetchThrow("Error", "listReleases",
                              "Release " \o tagName \o " not found")
                /\ UNCHANGED <<prev, releaseContext>>
           ELSE /\ prev' = PrevTag(data, tagName)
                /\ fpc' = "compare"
                /\ UNCHANGED <<releaseContext, fetchErr>>
    /\ UNCHANGED <<releases, tagName, compare>>

\* listReleases answers; everything up to the next await, or the return.
ListReleases ==
    /\ fpc = "listReleases"
    /\ requests' = Append(requests, [api |-> "listReleases",
                                     per_page |-> PerPage])
    /\ LET data == Page(releases)
           current == Find(data, tagName)
       IN  IF current = 0
           THEN /\ FetchThrow("Error", "listReleases",
                              "Release " \o tagName \o " not found")
                /\ UNCHANGED <<prev, releaseContext>>
           ELSE /\ prev' = PrevTag(data, tagName)
                /\ IF prev' \notin {Null, ""}
                   THEN /\ fpc' = "compare"
                        /\ UNCHANGED <<releaseContext, fetchErr>>
                   ELSE /\ FetchReturn(data[current], Null, <<>>)
                        /\ UNCHANGED fetchErr
    /\ UNCHANGED <<releases, tagName, compare>>

\* listReleases is rejected and asked again.
ListReleasesRetried ==
    /\ fpc = "listReleases"
    /\ requests' = Append(requests, [api |-> "listReleases",
                                     per_page |-> PerPage])
    /\ UNCHANGED <<releases, tagName, fpc, prev, compare, releaseContext,
                   fetchErr>>

\* listReleases is rejected.
ListReleasesFails ==
    /\ fpc = "listReleases"
    /\ requests' = Append(requests, [api |-> "listReleases",
                                     per_page |-> PerPage])
    /\ FetchThrow("Upstream", "listReleases", "")
    /\ UNCHANGED <<releases, tagName, prev, compare, releaseContext>>

\* basehead: `${prev.tag_name}...${tagName}`, per_page: 250
ComparePerPage == 250

\* The comparison asked the wrong way round.
CompareRequestReversed ==
    [api |-> "compareCommitsWithBasehead",
     basehead |-> tagName \o "..." \o prev,
     per_page |-> ComparePerPage]

CompareRequest ==
    [api |-> "compareCommitsWithBasehead",
     basehead |-> prev \o "..." \o tagName,
     per_page |-> ComparePerPage]

\* compareCommitsWithBasehead answers, and execute returns.
CompareCommits ==
    /\ fpc = "compare"
    /\ requests' = Append(requests, CompareRequest)
    /\ \E data \in CompareResponses :
           /\ compare' = data
           /\ FetchReturn(Page(releases)[Find(Page(releases), tagName)], prev,
                          DiffFiles(data))
    /\ UNCHANGED <<releases, tagName, prev, fetchErr>>

\* compareCommitsWithBasehead is rejected.
CompareCommitsFails ==
    /\ fpc = "compare"
    /\ requests' = Append(requests, CompareRequest)
    /\ FetchThrow("Upstream", "compare", "")
    /\ UNCHANGED <<releases, tagName, prev, compare, releaseContext>>

\* One call of fetchReleaseContext, on any release list.
InitFetch ==
    /\ InitTool
    /\ InitExamplesIdle
    /\ InitFlowIdle
    /\ InitHookIdle
    /\ InitNamesIdle
    /\ releases \in ReleaseLists
    /\ tagName = Null
    /\ fpc = "idle"
    /\ prev = Null
    /\ requests = <<>>
    /\ compare = NoCompare
    /\ releaseContext = NoReleaseContext
    /\ fetchErr = NoErr

NextFetch ==
    \/ \E tag \in Tags : FetchStart(tag) /\ OnlyFetch
    \/ ListReleases /\ OnlyFetch
    \/ ListReleasesFails /\ OnlyFetch
    \/ CompareCommits /\ OnlyFetch
    \/ CompareCommitsFails /\ OnlyFetch

SpecFetch == InitFetch /\ [][NextFetch]_vars

\* ---------------------------------------------------------------------------
\* docsSyncWorkflow
\* ---------------------------------------------------------------------------

\* The run of createPrStep in the workflow, and a run of execute made before
\* the workflow starts (the pull-request step of an earlier workflow run).
FlowRun == "r1"
EarlierRun == "r2"

\* A string the workflow takes apart, as its characters, and as one string.
RECURSIVE Str(_)
Str(chars) == IF chars = <<>> THEN "" ELSE Head(chars) \o Str(Tail(chars))

\* s.replaceAll(from, to), from and to single characters
ReplaceAll(chars, from, to) ==
    [i \in 1..Len(chars) |-> IF chars[i] = from THEN to ELSE chars[i]]

\* `${init.docsBranchPrefix}dex-${safeRepo}-docs-${safeTag}`
BranchName(i) ==
    LET safeTag == ReplaceAll(i.tagName, "/", "-")
        safeRepo == ReplaceAll(i.repo, "/", "-")
    IN  i.docsBranchPrefix \o "dex-" \o Str(safeRepo) \o "-docs-" \o Str(safeTag)

\* The tags the workflow is run for.
TagV1 == <<"v", "1">>
TagR2 == <<"r", "/", "2">>
Inputs == { Input(TagV1), Input(TagR2) }

\* The release lists the workflow runs on.
FlowReleaseLists ==
    { <<>>,
      <<Release(Str(TagV1), 1)>>,
      <<Release(Str(TagV1), 1), Release(Str(TagR2), 2)>> }

\* What docsAgent.generate can answer: res.object of the structured output.
Drafts ==
    { [files |-> ("a.md" :> TextA), prTitle |-> "t1", prBody |-> "b1"],
      [files |-> <<>>, prTitle |-> "t2", prBody |-> Null] }

\* The context of the earlier run: the branch of the workflow run for TagV1.
EarlierContexts ==
    { Ctx(MainBranch, BranchName(Input(TagV1)), "t0", "b0",
          ("b.md" :> TextEB)) }

\* `Docs PR opened for ${init.repo} ${init.tagName}: ${inputData.prUrl}`
SlackText(i, prUrl) ==
    <<"Docs PR opened for ", Str(i.repo), " ", Str(i.tagName), ": ", prUrl>>

FlowThrow(at) ==
    /\ stage' = "failed"
    /\ flowErr' = at

\* The workflow is started: the first map, and fetchReleaseContextStep is
\* entered.
FlowStart(input) ==
    /\ stage = "idle"
    /\ pc[EarlierRun] \in {"idle", "done", "failed"}
    /\ init' = input
    /\ stage' = "fetch"
    /\ FetchStart(Str(input.tagName))
    /\ UNCHANGED <<drafted, slack, output, flowErr>>
    /\ UNCHANGED <<hostVars, runVars, pushes>>

\* fetchReleaseContextStep has returned; the map, and draftDocsStep is entered.
FetchStepDone ==
    /\ stage = "fetch"
    /\ fpc = "done"
    /\ stage' = "draft"
    /\ UNCHANGED <<init, drafted, slack, output, flowErr>>
    /\ UNCHANGED <<hostVars, runVars, pushes, fetchVars>>

FetchStepFailed ==
    /\ stage = "fetch"
    /\ fpc = "failed"
    /\ FlowThrow("fetch")
    /\ UNCHANGED <<init, drafted, slack, output>>
    /\ UNCHANGED <<hostVars, runVars, pushes, fetchVars>>

\* docsAgent.generate answers; the map computes branchName, and createPrStep
\* is entered.
DraftDocs(draft) ==
    /\ stage = "draft"
    /\ drafted' = draft
    /\ stage' = "createPr"
    /\ Start(FlowRun, Ctx(init.baseBranch, BranchName(init), draft.prTitle,
                          draft.prBody, draft.files))
    /\ UNCHANGED <<init, slack, output, flowErr>>
    /\ UNCHANGED fetchVars

\* docsAgent.generate fails, or its answer does not fit the schema.
DraftDocsFails ==
    /\ stage = "draft"
    /\ FlowThrow("draft")
    /\ UNCHANGED <<init, drafted, slack, output>>
    /\ UNCHANGED <<hostVars, runVars, pushes, fetchVars>>

\* createPrStep has failed and the workflow goes on to notifySlackStep.
CreatePrStepFailedOn ==
    /\ stage = "createPr"
    /\ pc[FlowRun] = "failed"
    /\ stage' = "notify"
    /\ UNCHANGED <<init, drafted, slack, output, flowErr>>
    /\ UNCHANGED <<hostVars, runVars, pushes, fetchVars>>

\* createPrStep has returned; the map builds the notification, and
\* notifySlackStep is entered.
CreatePrStepDone ==
    /\ stage = "createPr"
    /\ pc[FlowRun] = "done"
    /\ stage' = "notify"
    /\ UNCHANGED <<init, drafted, slack, output, flowErr>>
    /\ UNCHANGED <<hostVars, runVars, pushes, fetchVars>>

CreatePrStepFailed ==
    /\ stage = "createPr"
    /\ pc[FlowRun] = "failed"
    /\ FlowThrow("createPr")
    /\ UNCHANGED <<init, drafted, slack, output>>
    /\ UNCHANGED <<hostVars, runVars, pushes, fetchVars>>

\* The message that carries the URL of the first pull request of the host.
NotifyFirstPull ==
    /\ stage = "notify"
    /\ slack' = Append(slack, [channel |-> init.slackChannel,
                               text |-> SlackText(init, HtmlUrl(1))])
    /\ output' = [prUrl |-> result[FlowRun].prUrl]
    /\ stage' = "done"
    /\ UNCHANGED <<init, drafted, flowErr>>
    /\ UNCHANGED <<hostVars, runVars, pushes, fetchVars>>

\* chat.postMessage answers; the last map returns the prUrl of createPrStep.
Notify ==
    /\ stage = "notify"
    /\ slack' = Append(slack, [channel |-> init.slackChannel,
                               text |-> SlackText(init, result[FlowRun].prUrl)])
    /\ output' = [prUrl |-> result[FlowRun].prUrl]
    /\ stage' = "done"
    /\ UNCHANGED <<init, drafted, flowErr>>
    /\ UNCHANGED <<hostVars, runVars, pushes, fetchVars>>

\* chat.postMessage is rejected after the message went out.
NotifyFailsPosted ==
    /\ stage = "notify"
    /\ slack' = Append(slack, [channel |-> init.slackChannel,
                               text |-> SlackText(init, result[FlowRun].prUrl)])
    /\ FlowThrow("notify")
    /\ UNCHANGED <<init, drafted, output>>
    /\ UNCHANGED <<hostVars, runVars, pushes, fetchVars>>

\* chat.postMessage is rejected.
NotifyFails ==
    /\ stage = "notify"
    /\ FlowThrow("notify")
    /\ UNCHANGED <<init, drafted, slack, output>>
    /\ UNCHANGED <<hostVars, runVars, pushes, fetchVars>>

\* One run of the workflow, after at most one earlier run of the
\* pull-request step on the branch.
InitFlow ==
    /\ InitTool
    /\ InitExamplesIdle
    /\ InitFlowIdle
    /\ InitHookIdle
    /\ InitNamesIdle
    /\ releases \in FlowReleaseLists
    /\ tagName = Null
    /\ fpc = "idle"
    /\ prev = Null
    /\ requests = <<>>
    /\ compare = NoCompare
    /\ releaseContext = NoReleaseContext
    /\ fetchErr = NoErr

NextFlow ==
    \/ \E ctx \in EarlierContexts :
          stage = "idle" /\ Start(EarlierRun, ctx) /\ OnlyTool
    \/ Step(EarlierRun) /\ OnlyTool
    \/ \E input \in Inputs : FlowStart(input) /\ OnlyFlow
    \/ stage = "fetch" /\ ListReleases /\ OnlyFetch
    \/ stage = "fetch" /\ ListReleasesFails /\ OnlyFetch
    \/ stage = "fetch" /\ CompareCommits /\ OnlyFetch
    \/ stage = "fetch" /\ CompareCommitsFails /\ OnlyFetch
    \/ FetchStepDone /\ OnlyFlow
    \/ FetchStepFailed /\ OnlyFlow
    \/ \E draft \in Drafts : DraftDocs(draft) /\ OnlyFlow
    \/ DraftDocsFails /\ OnlyFlow
    \/ stage = "createPr" /\ Step(FlowRun) /\ OnlyTool
    \/ CreatePrStepDone /\ OnlyFlow
    \/ CreatePrStepFailed /\ OnlyFlow
    \/ Notify /\ OnlyFlow
    \/ NotifyFails /\ OnlyFlow
    \/ Push /\ OnlyTool

SpecFlow == InitFlow /\ [][NextFlow]_vars

\* ---------------------------------------------------------------------------
\* The handler of POST /api/webhooks/github
\* ---------------------------------------------------------------------------

\* A JSON object with the keys in S only.
Only(object, S) == [k \in (DOMAIN object) \cap S |-> object[k]]

\* body.repository: with or without full_name, a string given as its
\* characters.
FullNames ==
    { <<>>, <<"o">>, <<"o", "/", "r">>, <<"/", "r">>, <<"a", "/", "b", "/", "c">> }
Repositories ==
    { Only([full_name |-> n], S) : n \in FullNames, S \in SUBSET {"full_name"} }

\* body.release: with or without tag_name and body.
PayloadReleases ==
    { Only([tag_name |-> "v1", body |-> b], S) :
        b \in {"", "notes"}, S \in {{}, {"tag_name"}, {"tag_name", "body"}} }

\* The JSON objects a request can carry.
Payloads ==
    { Only([action |-> a, repository |-> repository, release |-> release], S) :
        a \in {"published", "created"},
        repository \in Repositories,
        release \in PayloadReleases,
        S \in SUBSET {"action", "repository", "release"} }

\* The body of a request: text that is not JSON (or no text), the JSON null,
\* or a JSON object.
Malformed == [kind |-> "malformed"]
JsonNull == [kind |-> "null"]
Object(value) == [kind |-> "object", value |-> value]
EmptyObject == Only([action |-> ""], {})
RawBodies == {Malformed, JsonNull} \cup { Object(p) : p \in Payloads }

\* The x-github-event header; Null when the request has none.
Events == {Null, "release", "push"}

\* process.env.DOCS_BASE_BRANCH; Null when not set.
Envs == {Null, "", "develop"}

\* c.req.json() without the catch: what does not parse is taken as null.
ParseBodyNoCatch(raw) == IF raw.kind = "malformed" THEN JsonNull ELSE raw

\* await c.req.json().catch(() => ({}))
ParseBody(raw) == IF raw.kind = "malformed" THEN Object(EmptyObject) ELSE raw

\* body.action of an object; Null when undefined.
Action(object) == IF "action" \in DOMAIN object THEN object.action ELSE Null

\* event !== 'release' || body.action !== 'published'
Ignored(event, object) == event # "release" \/ Action(object) # "published"

\* body?.repository?.full_name || ''
RepoFull(object) ==
    IF "repository" \in DOMAIN object /\ "full_name" \in DOMAIN object.repository
    THEN object.repository.full_name
    ELSE <<>>

\* chars.split(sep): the pieces between the separators, at least one.
RECURSIVE Split(_, _)
Split(chars, sep) ==
    LET cuts == { i \in 1..Len(chars) : chars[i] = sep }
    IN  IF cuts = {} THEN <<chars>>
        ELSE LET i == CHOOSE c \in cuts : \A d \in cuts : c <= d
             IN  <<SubSeq(chars, 1, i - 1)>> \o
                     Split(SubSeq(chars, i + 1, Len(chars)), sep)

\* const [owner, repo] = parts: an element that is not there is undefined.
Element(parts, k) == IF k <= Len(parts) THEN Str(parts[k]) ELSE Null

\* body?.release?.body || undefined
ReleaseNotes(object) ==
    IF /\ "release" \in DOMAIN object
       /\ "body" \in DOMAIN object.release
       /\ object.release.body # ""
    THEN object.release.body
    ELSE Null

\* process.env.X || fallback
OrDefault(value, fallback) == IF value \in {Null, ""} THEN fallback ELSE value

\* inputData: { owner, repo, releaseNotes, baseBranch, docsBranchPrefix,
\* slackChannel }
InputData(object) ==
    LET parts == Split(RepoFull(object), "/")
    IN  [owner |-> Element(parts, 1),
         repo |-> Element(parts, 2),
         releaseNotes |-> ReleaseNotes(object),
         baseBranch |-> OrDefault(env, "main"),
         docsBranchPrefix |-> OrDefault(Null, "docs/update-"),
         slackChannel |-> OrDefault(Null, "#docs")]

\* c.text(text, status), c.json(result, 200)
Respond(status, text) ==
    /\ hpc' = "responded"
    /\ response' = [status |-> status, text |-> text]

\* A request arrives.
Receive(event, raw) ==
    /\ hpc = "idle"
    /\ request' = [event |-> event, body |-> raw]
    /\ hpc' = "json"
    /\ UNCHANGED <<env, body, inputData, started, response>>

\* c.req.json() settles; the test, and the input of the run is built.
ParseJson ==
    /\ hpc = "json"
    /\ body' = ParseBody(request.body)
    /\ IF request.event = "release" /\ body'.kind = "null"
       THEN /\ Respond(500, "Cannot read properties of null")
            /\ UNCHANGED inputData
       ELSE IF body'.kind = "null" \/ Ignored(request.event, body'.value)
            THEN /\ Respond(200, "ignored")
                 /\ UNCHANGED inputData
            ELSE /\ inputData' = InputData(body'.value)
                 /\ hpc' = "createRun"
                 /\ UNCHANGED response
    /\ UNCHANGED <<env, request, started>>

\* await workflow.createRunAsync()
CreateRun ==
    /\ hpc = "createRun"
    /\ hpc' = "start"
    /\ UNCHANGED <<env, request, body, inputData, started, response>>

\* run.start({ inputData }) is called.
StartRun ==
    /\ hpc = "start"
    /\ started' = Append(started, inputData)
    /\ hpc' = "running"
    /\ UNCHANGED <<env, request, body, inputData, response>>

\* run.start settles with a result, whatever its status.
RunSettles ==
    /\ hpc = "running"
    /\ Respond(200, "result")
    /\ UNCHANGED <<env, request, body, inputData, started>>

\* createRunAsync or run.start rejects: catch (e) { c.text(e.message, 500) }
RunRejects ==
    /\ hpc \in {"createRun", "running"}
    /\ Respond(500, "error")
    /\ UNCHANGED <<env, request, body, inputData, started>>

\* One request to the handler, under any setting of the environment.
InitHook ==
    /\ InitTool
    /\ InitExamplesIdle
    /\ InitFetchIdle
    /\ InitFlowIdle
    /\ InitNamesIdle
    /\ env \in Envs
    /\ request = NoRequest
    /\ hpc = "idle"
    /\ body = JsonNull
    /\ inputData = NoInputData
    /\ started = <<>>
    /\ response = NoResponse

NextHook ==
    \/ \E event \in Events, raw \in RawBodies : Receive(event, raw) /\ OnlyHook
    \/ ParseJson /\ OnlyHook
    \/ CreateRun /\ OnlyHook
    \/ StartRun /\ OnlyHook
    \/ RunSettles /\ OnlyHook
    \/ RunRejects /\ OnlyHook

SpecHook == InitHook /\ [][NextHook]_vars

\* ---------------------------------------------------------------------------
\* The branch names of two workflow runs
\* ---------------------------------------------------------------------------

\* The tag names of at most MaxTagLen characters.
TagChars == {"v", "/", "-"}
TagNames == UNION { [1..n -> TagChars] : n \in 0..MaxTagLen }

\* The repositories the two runs are for.
RepoNames == { <<"d", "e", "x">>, <<"a", "/", "b">> }

\* The input of a run for a repository and a tag.
InputFor(repo, tag) == [Input(tag) EXCEPT !.repo = repo]

\* The map before createPrStep, in each of the two runs.
MapBranchNames ==
    /\ branchNames = <<>>
    /\ branchNames' = <<BranchName(inits[1]), BranchName(inits[2])>>
    /\ UNCHANGED inits

\* Two runs for the same repository and prefix, for any two tags.
InitNames ==
    /\ InitTool
    /\ InitExamplesIdle
    /\ InitFetchIdle
    /\ InitFlowIdle
    /\ InitHookIdle
    /\ \E repo \in RepoNames, tagA \in TagNames, tagB \in TagNames :
           inits = <<InputFor(repo, tagA), InputFor(repo, tagB)>>
    /\ branchNames = <<>>

NextNames == MapBranchNames /\ OnlyNames

SpecNames == InitNames /\ [][NextNames]_vars


\* ---------------------------------------------------------------------------
\* examples/4-suspend-resume-workflow.ts: suspendResumeWorkflow
\* ---------------------------------------------------------------------------
Amounts == {0, 99, 100, 101, 1000, 1001}

\* inputSchema of the workflow.
ExpenseInputs ==
    [employeeName : {"ann", "bob"}, amount : Amounts,
     category : {"travel", "meals"},
     description : {"d"}]

\* resumeSchema of approvalStep; approverComments is optional.
ResumeDatas ==
    [approved : BOOLEAN, approverName : {"m1", "m2"}]
        \cup [approved : BOOLEAN, approverName : {"m1"},
              approverComments : {"ok"}]

\* Approval from the threshold on.
RequiresApprovalFrom(amount) == amount >= 100

\* const requiresApproval = inputData.amount > 100
RequiresApproval(amount) == amount > 100

\* const approverLevel = inputData.amount > 1000 ? 'senior-manager' : 'manager'
ApproverLevel(amount) == IF amount > 1000 THEN "senior-manager" ELSE "manager"

\* analyzeExpenseStep.execute
AnalyzeExpense ==
    /\ epc = "analyze-expense"
    /\ analysis' =
          [employeeName |-> expense.employeeName, amount |-> expense.amount,
           category |-> expense.category, description |-> expense.description,
           requiresApproval |-> RequiresApproval(expense.amount),
           approverLevel |-> ApproverLevel(expense.amount)]
    /\ epc' = "approval"
    /\ UNCHANGED <<expense, suspendPayload, approval, expenseResult>>

\* approvalStep.execute({inputData, resumeData, suspend})
ApprovalExecute(input, resumeData) ==
    IF ~input.requiresApproval
    THEN /\ approval' = [approved |-> TRUE, approverName |-> "system",
                         approverComments |-> "Auto-approved: under threshold",
                         autoApproved |-> TRUE]
         /\ epc' = "process-expense"
         /\ UNCHANGED suspendPayload
    ELSE IF resumeData = Undefined
    THEN /\ suspendPayload' =
               [message |-> <<"Expense approval required for $", input.amount>>,
                pendingApprover |-> input.approverLevel,
                requestDetails |-> [employee |-> input.employeeName,
                                    amount |-> input.amount,
                                    category |-> input.category]]
         /\ epc' = "suspended"
         /\ UNCHANGED approval
    ELSE /\ approval' = [autoApproved |-> FALSE] @@ resumeData
         /\ epc' = "process-expense"
         /\ UNCHANGED suspendPayload

\* .then(approvalStep): the step runs on the output of analyzeExpenseStep.
Approval ==
    /\ epc = "approval"
    /\ ApprovalExecute(analysis, Undefined)
    /\ UNCHANGED <<expense, analysis, expenseResult>>

\* run.resume({step: 'approval', resumeData}): the step runs again.
ResumeApproval(resumeData) ==
    /\ epc = "suspended"
    /\ ApprovalExecute(analysis, resumeData)
    /\ UNCHANGED <<expense, analysis, expenseResult>>

\* processExpenseStep.execute
ProcessExpense ==
    /\ epc = "process-expense"
    /\ expenseResult' =
          IF ~approval.approved
          THEN [status |-> "rejected",
                message |-> <<"Expense request for $", expense.amount,
                              " was rejected">>,
                processedBy |-> approval.approverName]
          ELSE [status |-> "approved",
                message |-> <<"Expense request for $", expense.amount, " was ",
                              IF approval.autoApproved THEN "auto-" ELSE "",
                              "approved">>,
                processedBy |-> approval.approverName]
    /\ epc' = "done"
    /\ UNCHANGED <<expense, analysis, suspendPayload, approval>>

InitExpense ==
    /\ InitDocsIdle
    /\ InitLoopIdle
    /\ InitOrderIdle
    /\ InitErrorIdle
    /\ InitGameIdle
    /\ expense \in ExpenseInputs
    /\ epc = "analyze-expense"
    /\ analysis = Undefined
    /\ suspendPayload = Undefined
    /\ approval = Undefined
    /\ expenseResult = Undefined

NextExpense ==
    \/ AnalyzeExpense /\ OnlyExpense
    \/ Approval /\ OnlyExpense
    \/ \E resumeData \in ResumeDatas \cup {Undefined} :
          ResumeApproval(resumeData) /\ OnlyExpense
    \/ ProcessExpense /\ OnlyExpense

SpecExpense == InitExpense /\ [][NextExpense]_vars


\* ---------------------------------------------------------------------------
\* examples/6-loop-workflow.ts: loopWorkflow
\* ---------------------------------------------------------------------------
\* inputSchema of the workflow: maxRetries from 0 to MaxRetries.
LoopInputs == [endpoint : {"/a", "/b", "/c"}, maxRetries : 0..MaxRetries]

\* initializeStep.execute
Initialize ==
    /\ lpc = "initialize"
    /\ attempt' = [endpoint |-> loopInput.endpoint,
                   maxRetries |-> loopInput.maxRetries,
                   attemptNumber |-> 0, success |-> FALSE]
    /\ lpc' = "attempt-api-call"
    /\ UNCHANGED <<loopInput, runCount, loopResult, loopError>>

\* Math.random() < 0.4 + currentAttempt * 0.2, in tenths: from the fourth
\* attempt on the call cannot fail.
Outcomes(currentAttempt) ==
    IF 4 + currentAttempt * 2 >= 10 THEN {TRUE} ELSE BOOLEAN

\* The check that lets one attempt more through.
ExhaustedAfter(currentAttempt, maxRetries) == currentAttempt >= maxRetries

\* if (currentAttempt >= inputData.maxRetries - 1) throw
Exhausted(currentAttempt, maxRetries) == currentAttempt >= maxRetries - 1

\* The condition of dountil: stop when successful.
Until(returned) == returned.success = TRUE

\* attemptApiCallStep.execute({inputData, runCount}), then the condition of
\* dountil on what it returned. runCount is the number of executions of the
\* step made before this one. The backoff wait changes no state.
AttemptApiCall(success) ==
    /\ lpc = "attempt-api-call"
    /\ LET currentAttempt == runCount
           returned ==
               IF success
               THEN [endpoint |-> attempt.endpoint,
                     maxRetries |-> attempt.maxRetries,
                     attemptNumber |-> currentAttempt + 1,
                     success |-> TRUE,
                     responseData |-> <<"Success on attempt ", currentAttempt + 1>>]
               ELSE [endpoint |-> attempt.endpoint,
                     maxRetries |-> attempt.maxRetries,
                     attemptNumber |-> currentAttempt + 1,
                     success |-> FALSE,
                     errorMessage |-> <<"Attempt ", currentAttempt + 1,
                                        " failed, retrying...">>]
       IN  /\ success \in Outcomes(currentAttempt)
           /\ runCount' = runCount + 1
           /\ IF ~success /\ Exhausted(currentAttempt, attempt.maxRetries)
              THEN /\ loopError' = <<"API call failed after ",
                                     attempt.maxRetries, " attempts">>
                   /\ lpc' = "failed"
                   /\ UNCHANGED attempt
              ELSE /\ attempt' = returned
                   /\ lpc' = IF Until(returned) THEN "format-result"
                                              ELSE "attempt-api-call"
                   /\ UNCHANGED loopError
    /\ UNCHANGED <<loopInput, loopResult>>

\* formatResultStep.execute
FormatResult ==
    /\ lpc = "format-result"
    /\ loopResult' =
          [success |-> attempt.success,
           attempts |-> attempt.attemptNumber,
           message |-> IF attempt.success
                       THEN <<"API call succeeded after ",
                              attempt.attemptNumber, " attempts">>
                       ELSE <<"API call failed after ",
                              attempt.attemptNumber, " attempts">>,
           data |-> IF "responseData" \in DOMAIN attempt
                    THEN attempt.responseData ELSE <<>>]
    /\ lpc' = "done"
    /\ UNCHANGED <<loopInput, runCount, attempt, loopError>>

InitLoop ==
    /\ InitDocsIdle
    /\ InitExpenseIdle
    /\ InitOrderIdle
    /\ InitErrorIdle
    /\ InitGameIdle
    /\ loopInput \in LoopInputs
    /\ lpc = "initialize"
    /\ runCount = 0
    /\ attempt = Undefined
    /\ loopResult = Undefined
    /\ loopError = <<>>

NextLoop ==
    \/ Initialize /\ OnlyLoop
    \/ \E success \in BOOLEAN : AttemptApiCall(success) /\ OnlyLoop
    \/ FormatResult /\ OnlyLoop

\* The engine runs each step as soon as the one before it has returned, and
\* the backoff wait is at most ten seconds: a step that can run does run.
SpecLoop == InitLoop /\ [][NextLoop]_vars /\ WF_vars(NextLoop)


\* ---------------------------------------------------------------------------
\* examples/3-branch-workflow.ts: branchWorkflow
\* ---------------------------------------------------------------------------
\* Amounts of money are in cents: $50 is 5000, $5.99 is 599.
SmallLimit == 5000
LargeLimit == 20000
SmallShipping == 599
MediumShipping == 299

\* The items of an order: prices and quantities whose sums fall on both sides
\* of the two limits and on the limits themselves.
Items == [name : {"item"}, price : {999, 2500, 10000}, quantity : {0, 1, 2}]

\* inputSchema of the workflow: up to MaxItems items.
Orders == UNION { [1..n -> Items] : n \in 0..MaxItems }

RECURSIVE Subtotal(_)
\* items.reduce((sum, item) => sum + item.price * item.quantity, 0)
Subtotal(items) ==
    IF items = <<>> THEN 0
    ELSE Subtotal(SubSeq(items, 1, Len(items) - 1))
             + items[Len(items)].price * items[Len(items)].quantity

RECURSIVE ItemCount(_)
\* items.reduce((sum, item) => sum + item.quantity, 0)
ItemCount(items) ==
    IF items = <<>> THEN 0
    ELSE ItemCount(SubSeq(items, 1, Len(items) - 1)) + items[Len(items)].quantity

\* calculateStep.execute
Calculate ==
    /\ bpc = "calculate"
    /\ calculated' = [items |-> order.items,
                      subtotal |-> Subtotal(order.items),
                      itemCount |-> ItemCount(order.items)]
    /\ bpc' = "map"
    /\ UNCHANGED <<order, branchInput, branchResult>>

\* .map(({inputData}) => ({subtotal, itemCount}))
MapOrder ==
    /\ bpc = "map"
    /\ branchInput' = [subtotal |-> calculated.subtotal,
                       itemCount |-> calculated.itemCount]
    /\ bpc' = "branch"
    /\ UNCHANGED <<order, calculated, branchResult>>

\* The conditions of .branch, in the order given.
IsSmall(subtotal) == subtotal < SmallLimit

\* The second condition without its lower boundary.
IsMediumAbove(subtotal) == subtotal > SmallLimit /\ subtotal < LargeLimit

IsMedium(subtotal) == subtotal >= SmallLimit /\ subtotal < LargeLimit
IsLarge(subtotal) == subtotal >= LargeLimit

\* smallOrderStep.execute, mediumOrderStep.execute, largeOrderStep.execute
SmallOrder(input) ==
    [subtotal |-> input.subtotal, shipping |-> SmallShipping,
     total |-> input.subtotal + SmallShipping, processingType |-> "standard"]
MediumOrder(input) ==
    [subtotal |-> input.subtotal, shipping |-> MediumShipping,
     total |-> input.subtotal + MediumShipping, processingType |-> "expedited"]
LargeOrder(input) ==
    [subtotal |-> input.subtotal, shipping |-> 0,
     total |-> input.subtotal, processingType |-> "priority"]

\* .branch([...]): every condition is evaluated, every step whose condition
\* holds is run, and the result holds the outputs by step id.
BranchOrder ==
    /\ bpc = "branch"
    /\ LET s == branchInput.subtotal
           chosen ==
               (IF IsSmall(s) THEN {"small-order"} ELSE {})
                   \cup (IF IsMedium(s) THEN {"medium-order"} ELSE {})
                   \cup (IF IsLarge(s) THEN {"large-order"} ELSE {})
       IN  branchResult' =
               [id \in chosen |->
                   CASE id = "small-order" -> SmallOrder(branchInput)
                     [] id = "medium-order" -> MediumOrder(branchInput)
                     [] id = "large-order" -> LargeOrder(branchInput)]
    /\ bpc' = "done"
    /\ UNCHANGED <<order, calculated, branchInput>>

InitOrder ==
    /\ InitDocsIdle
    /\ InitExpenseIdle
    /\ InitLoopIdle
    /\ InitErrorIdle
    /\ InitGameIdle
    /\ \E items \in Orders : order = [items |-> items]
    /\ bpc = "calculate"
    /\ calculated = Undefined
    /\ branchInput = Undefined
    /\ branchResult = <<>>

NextOrder ==
    \/ Calculate /\ OnlyOrder
    \/ MapOrder /\ OnlyOrder
    \/ BranchOrder /\ OnlyOrder

SpecOrder == InitOrder /\ [][NextOrder]_vars


\* ---------------------------------------------------------------------------
\* examples/9-error-handling-workflow.ts: errorHandlingWorkflow
\* ---------------------------------------------------------------------------
RateLimit == 100

\* retries: 3 of fetchDataStep; retryConfig.attempts: 2 of the workflow, which
\* applies to every step of the workflow that sets no retries of its own.
FetchRetries == 3
RetryAttempts == 2

\* inputSchema of the workflow.
ErrorInputs ==
    [apiKey : {"key"}, endpoint : {"/e"},
     requestCount : {0, 50, 99, 100, 101, 150}]

\* .map(({inputData}) => ({apiKey, requestCount}))
MapRequest ==
    /\ xpc = "map"
    /\ xpc' = "check-rate-limit"
    /\ UNCHANGED <<errorInput, rateLimit, mainTries, fetchTries, fetchRuns,
                   processRuns, errorResult>>

\* The limit taken as exceeded only above it.
ExceededAbove(remaining) == remaining < 0

\* if (remaining <= 0) return bail(...)
Exceeded(remaining) == remaining <= 0

\* checkRateLimitStep.execute: bail ends the run with the value given.
CheckRateLimit ==
    /\ xpc = "check-rate-limit"
    /\ LET remaining == RateLimit - errorInput.requestCount
       IN  IF Exceeded(remaining)
           THEN /\ rateLimit' =
                      [allowed |-> FALSE, remaining |-> 0,
                       message |-> "Rate limit exceeded. Workflow terminated."]
                /\ errorResult' = [status |-> "success", result |-> rateLimit']
                /\ xpc' = "bailed"
           ELSE /\ rateLimit' =
                      [allowed |-> TRUE, remaining |-> remaining,
                       message |-> <<remaining, " requests remaining">>]
                /\ xpc' = "map-init"
                /\ UNCHANGED errorResult
    /\ UNCHANGED <<errorInput, mainTries, fetchTries, fetchRuns, processRuns>>

\* .map(({getInitData}) => ({apiKey, endpoint})), then .branch with the one
\* condition async () => true: main-processing is run, for the first time.
MapInit ==
    /\ xpc = "map-init"
    /\ mainTries' = 1
    /\ fetchTries' = 0
    /\ xpc' = "fetch-data"
    /\ UNCHANGED <<errorInput, rateLimit, fetchRuns, processRuns, errorResult>>

\* fetchDataStep.execute: Math.random() > 0.5 decides. A throw is retried up
\* to FetchRetries times; after the last one main-processing has failed, and
\* as a step of the workflow it is run again up to RetryAttempts times; after
\* the last one the run has failed.
FetchData(success) ==
    /\ xpc = "fetch-data"
    /\ fetchRuns' = fetchRuns + 1
    /\ IF success
       THEN /\ fetchTries' = fetchTries + 1
            /\ xpc' = "process-data"
            /\ UNCHANGED <<mainTries, errorResult>>
       ELSE IF fetchTries + 1 < 1 + FetchRetries
       THEN /\ fetchTries' = fetchTries + 1
            /\ UNCHANGED <<xpc, mainTries, errorResult>>
       ELSE IF mainTries < 1 + RetryAttempts
       THEN /\ mainTries' = mainTries + 1
            /\ fetchTries' = 0
            /\ UNCHANGED <<xpc, errorResult>>
       ELSE /\ fetchTries' = fetchTries + 1
            /\ xpc' = "failed"
            /\ errorResult' = [status |-> "failed", error |-> "API request failed"]
            /\ UNCHANGED mainTries
    /\ UNCHANGED <<errorInput, rateLimit, processRuns>>

\* processDataStep.execute: the data fetch-data returned is an object.
ProcessData ==
    /\ xpc = "process-data"
    /\ processRuns' = processRuns + 1
    /\ xpc' = "format-result"
    /\ UNCHANGED <<errorInput, rateLimit, mainTries, fetchTries, fetchRuns,
                   errorResult>>

\* formatResultStep.execute
FormatErrorResult ==
    /\ xpc = "format-result"
    /\ errorResult' =
          [status |-> "success",
           result |-> [success |-> TRUE,
                       message |-> "Data processed successfully",
                       data |-> "{\"result\":\"Sample data from API\"}"]]
    /\ xpc' = "done"
    /\ UNCHANGED <<errorInput, rateLimit, mainTries, fetchTries, fetchRuns,
                   processRuns>>

InitError ==
    /\ InitDocsIdle
    /\ InitExpenseIdle
    /\ InitLoopIdle
    /\ InitOrderIdle
    /\ InitGameIdle
    /\ errorInput \in ErrorInputs
    /\ xpc = "map"
    /\ rateLimit = Undefined
    /\ mainTries = 0
    /\ fetchTries = 0
    /\ fetchRuns = 0
    /\ processRuns = 0
    /\ errorResult = Undefined

NextError ==
    \/ MapRequest /\ OnlyError
    \/ CheckRateLimit /\ OnlyError
    \/ MapInit /\ OnlyError
    \/ \E success \in BOOLEAN : FetchData(success) /\ OnlyError
    \/ ProcessData /\ OnlyError
    \/ FormatErrorResult /\ OnlyError

SpecError == InitError /\ [][NextError]_vars


\* ---------------------------------------------------------------------------
\* The human-in-the-loop workflow: humanInTheLoopWorkflow
\* ---------------------------------------------------------------------------
\* inputSchema of the workflow: numbers from 1 to MaxNumber.
GameInputs == { [minNumber |-> 1, maxNumber |-> max] : max \in 2..MaxNumber }

\* resumeSchema of gameLoopStep: guesses in the range and on either side of it.
Guesses == 0..(MaxNumber + 1)

\* Math.floor(Math.random() * (maxNumber - minNumber + 1)) + minNumber
SecretNumbers(input) == input.minNumber..input.maxNumber

\* initializeGameStep.execute
InitializeGame(secretNumber) ==
    /\ gpc = "initialize-game"
    /\ secretNumber \in SecretNumbers(gameInput)
    /\ game' = [secretNumber |-> secretNumber, guessCount |-> 0,
                minNumber |-> gameInput.minNumber,
                maxNumber |-> gameInput.maxNumber]
    /\ gpc' = "game-loop"
    /\ UNCHANGED <<gameInput, guesses, suspends, summary>>

\* gameLoopStep.execute without resumeData: if (!resumeData) suspend(...).
\* The step is run on the output of the step before it in the loop.
GameLoop ==
    /\ gpc = "game-loop"
    /\ suspends' = suspends + 1
    /\ gpc' = "suspended"
    /\ UNCHANGED <<gameInput, game, guesses, summary>>

\* The count that starts over at every guess.
NewGuessCountFirst(guessCount) == 1

\* const newGuessCount = guessCount + 1
NewGuessCount(guessCount) == guessCount + 1

\* The feedback of a wrong guess.
Feedback(guess, secretNumber) ==
    IF guess < secretNumber THEN "Too low!" ELSE "Too high!"

\* The condition of dountil: stop when the guess is correct.
UntilCorrect(returned) == returned.isCorrect = TRUE

\* run.resume({step: 'game-loop', resumeData: {guess}}): gameLoopStep.execute
\* with resumeData, then the condition of dountil on what it returned.
ResumeGame(guess) ==
    /\ gpc = "suspended"
    /\ guess = game.secretNumber \/ Len(guesses) < MaxGuesses
    /\ guesses' = Append(guesses, guess)
    /\ LET newGuessCount == NewGuessCount(game.guessCount)
           returned ==
               IF guess = game.secretNumber
               THEN [secretNumber |-> game.secretNumber,
                     guessCount |-> newGuessCount,
                     isCorrect |-> TRUE,
                     lastGuess |-> guess,
                     feedback |-> <<"Correct! You guessed it in ",
                                    newGuessCount, " tries!">>]
               ELSE [secretNumber |-> game.secretNumber,
                     guessCount |-> newGuessCount,
                     isCorrect |-> FALSE,
                     lastGuess |-> guess,
                     feedback |-> <<Feedback(guess, game.secretNumber)>>]
       IN  /\ game' = returned
           /\ gpc' = IF UntilCorrect(returned) THEN "game-summary"
                                               ELSE "game-loop"
    /\ UNCHANGED <<gameInput, suspends, summary>>

\* gameSummaryStep.execute
GameSummary ==
    /\ gpc = "game-summary"
    /\ summary' = [won |-> game.isCorrect,
                   totalGuesses |-> game.guessCount,
                   secretNumber |-> game.secretNumber,
                   message |-> <<"Game completed! The number was ",
                                 game.secretNumber, ". You took ",
                                 game.guessCount, " guesses.">>]
    /\ gpc' = "done"
    /\ UNCHANGED <<gameInput, game, guesses, suspends>>

InitGame ==
    /\ InitDocsIdle
    /\ InitExpenseIdle
    /\ InitLoopIdle
    /\ InitOrderIdle
    /\ InitErrorIdle
    /\ gameInput \in GameInputs
    /\ gpc = "initialize-game"
    /\ game = Undefined
    /\ guesses = <<>>
    /\ suspends = 0
    /\ summary = Undefined

NextGame ==
    \/ \E secretNumber \in 1..MaxNumber :
          InitializeGame(secretNumber) /\ OnlyGame
    \/ GameLoop /\ OnlyGame
    \/ \E guess \in Guesses : ResumeGame(guess) /\ OnlyGame
    \/ GameSummary /\ OnlyGame

SpecGame == InitGame /\ [][NextGame]_vars


\* ------------------------------------------------------------------ notions
Branch(r) == context[r].branchName
Files(r) == context[r].files

\* The blob holding a given content: its UTF-8 bytes.
BlobOf(content) == Utf8Encode(content)

\* The commit step of run r has succeeded: its updateRef has returned.
CommitStepDone(r) ==
    \/ pc[r] \in {"listPulls", "createPull", "done"}
    \/ pc[r] = "failed" /\ err[r].at \in {"listPulls", "createPull"}

\* The pull-request lookup of run r has returned.
LookupDone(r) ==
    \/ pc[r] \in {"createPull", "done"}
    \/ pc[r] = "failed" /\ err[r].at = "createPull"

\* Run q ran right after run p on the same branch: it read p's commit as head.
Successive(p, q) ==
    /\ p # q
    /\ CommitStepDone(p)
    /\ Branch(p) = Branch(q)
    /\ latestCommitSha[q] = commitSha[p]

\* Tree t holds every file of fs with the content given.
HoldsFiles(t, fs) ==
    \A path \in DOMAIN fs : path \in DOMAIN t /\ t[path] = BlobOf(fs[path])

Ancestors(c) == {a \in 1..Len(commits) : IsAncestor(a, c)}

\* Run r took a step that left the await `at`.
Leaves(r, at) == pc[r] = at /\ pc'[r] # at


\* ------------------------------------------------------------------ claims
\* C1: two successive successful commit steps on the same branch with
\* disjoint file sets leave the branch's tree holding every path of both sets
\* with the contents given; nothing the first run wrote is lost by the second.
C1_DisjointUnion ==
    \A p, q \in Runs :
        ( /\ Successive(p, q)
          /\ CommitStepDone(q)
          /\ (DOMAIN Files(p)) \cap (DOMAIN Files(q)) = {} )
        => /\ HoldsFiles(TreeOf(refs[Branch(q)]), Files(p))
           /\ HoldsFiles(TreeOf(refs[Branch(q)]), Files(q))

C1_Witness ==
    \E p, q \in Runs :
        /\ Successive(p, q)
        /\ CommitStepDone(q)
        /\ Files(p) # <<>>
        /\ Files(q) # <<>>
        /\ (DOMAIN Files(p)) \cap (DOMAIN Files(q)) = {}
        /\ DOMAIN TreeOf(refs[Branch(q)]) = Paths \cup {ReadmePath}

\* C2: the tree of the commit a run creates is the branch's tree as read in
\* that run overlaid with the files: paths outside files keep their blob,
\* paths in files hold the blob of the given content, no path is deleted.
C2_TreeIsOverlay ==
    \A r \in Runs :
        commitSha[r] # NoSha =>
            LET new == TreeOf(commitSha[r])
                old == baseTreeSha[r]
            IN  /\ old = TreeOf(latestCommitSha[r])
                /\ DOMAIN old \subseteq DOMAIN new
                /\ DOMAIN new = (DOMAIN old) \cup (DOMAIN Files(r))
                /\ \A path \in (DOMAIN old) \ (DOMAIN Files(r)) :
                       new[path] = old[path]
                /\ HoldsFiles(new, Files(r))

\* A run replaced the content of a path the branch already held and kept
\* the other paths.
C2_Witness ==
    \E r \in Runs :
        /\ CommitStepDone(r)
        /\ refs[Branch(r)] = commitSha[r]
        /\ \E path \in DOMAIN Files(r) :
              /\ path \in DOMAIN baseTreeSha[r]
              /\ baseTreeSha[r][path] # BlobOf(Files(r)[path])
        /\ ReadmePath \in DOMAIN TreeOf(commitSha[r])


\* C3: every commit a run creates has exactly one parent, the head of
\* branchName as read in that run (not the head of baseBranch when the two
\* differ); no commit has two parents; and the commits that runs which do not
\* overlap put on one branch lie on a single chain.
C3_SingleParentChain ==
    /\ \A c \in 1..Len(commits) : Len(commits[c].parents) <= 1
    /\ \A r \in Runs :
          commitSha[r] # NoSha =>
              /\ commits[commitSha[r]].parents = <<latestCommitSha[r]>>
              /\ latestCommitSha[r] # baseSha[r] =>
                     commits[commitSha[r]].parents # <<baseSha[r]>>
    /\ \A p, q \in Runs :
          (CommitStepDone(p) /\ CommitStepDone(q) /\ Branch(p) = Branch(q)) =>
              \/ IsAncestor(commitSha[p], commitSha[q])
              \/ IsAncestor(commitSha[q], commitSha[p])

\* Two runs on the docs branch, the second built on the first while the base
\* branch has moved on.
C3_Witness ==
    \E p, q \in Runs :
        /\ Successive(p, q)
        /\ CommitStepDone(q)
        /\ Branch(q) = DocsBranch
        /\ refs[DocsBranch] = commitSha[q]
        /\ baseSha[q] # baseSha[p]
        /\ commits[commitSha[q]].parents = <<commitSha[p]>>

\* C4: branch creation is create-if-absent: when branchName exists the run
\* passes the creation step without failing and without moving the branch,
\* reads the branch's own head, and builds its commit on that head and its
\* tree, also when baseBranch has moved on since.
C4_CreateIfAbsent ==
    /\ [][\A r \in Runs :
            (Leaves(r, "createRef") /\ Branch(r) \in DOMAIN refs) =>
                (pc'[r] = "getBranchRef" /\ refs' = refs)]_vars
    /\ [][\A r \in Runs :
            (Leaves(r, "getBranchRef") /\ pc'[r] = "getCommit") =>
                latestCommitSha'[r] = refs[Branch(r)]]_vars
    /\ [](\A r \in Runs :
            commitSha[r] # NoSha =>
                /\ commits[commitSha[r]].parents = <<latestCommitSha[r]>>
                /\ \A path \in (DOMAIN TreeOf(latestCommitSha[r]))
                                  \ (DOMAIN Files(r)) :
                       /\ path \in DOMAIN TreeOf(commitSha[r])
                       /\ TreeOf(commitSha[r])[path] =
                              TreeOf(latestCommitSha[r])[path])

\* The branch existed, the base branch had advanced, and the run's commit
\* sits on the branch's head with the branch's README, not the base's.
C4_Witness ==
    \E r \in Runs :
        /\ createRefErr[r] = "exists"
        /\ Branch(r) = DocsBranch
        /\ commitSha[r] # NoSha
        /\ baseSha[r] = refs[MainBranch]
        /\ baseSha[r] # latestCommitSha[r]
        /\ ~IsAncestor(baseSha[r], commitSha[r])
        /\ TreeOf(commitSha[r])[ReadmePath] # TreeOf(baseSha[r])[ReadmePath]

\* C5: every successful commit step puts exactly one new commit on
\* branchName: the head after it is the run's commit, whose parent is the head
\* the run found, whatever the files (none, or contents the tree holds).
C5_OneCommitPerRun ==
    [][\A r \in Runs :
          (Leaves(r, "updateRef") /\ pc'[r] = "listPulls") =>
              LET b == Branch(r)
              IN  /\ refs'[b] = commitSha[r]
                  /\ commits[commitSha[r]].parents = <<latestCommitSha[r]>>
                  /\ commitSha[r] \notin Ancestors(refs[b])
                  /\ b # MainBranch => refs[b] = latestCommitSha[r]
                  /\ refs[b] = latestCommitSha[r] =>
                         Ancestors(commitSha[r]) =
                             Ancestors(refs[b]) \cup {commitSha[r]}]_vars

\* A run whose files all equal what the tree held moved the branch to a new
\* commit with the same tree.
C5_Witness ==
    \E r \in Runs :
        /\ CommitStepDone(r)
        /\ Files(r) # <<>>
        /\ TreeOf(commitSha[r]) = baseTreeSha[r]
        /\ refs[Branch(r)] = commitSha[r]
        /\ commitSha[r] # latestCommitSha[r]
        /\ commits[commitSha[r]].parents = <<latestCommitSha[r]>>


\* C6: when a blob, the tree or the commit cannot be created the run aborts
\* with an error and has issued no ref update: the branch stays at the head
\* the run read after create-if-absent (the base head when this run created
\* the branch), and no tree or commit a run makes lacks one of its files.
C6_FailFast ==
    /\ [][\A r \in Runs :
            ( /\ pc[r] # "failed"
              /\ pc'[r] = "failed"
              /\ err'[r].at \in {"createBlob", "createTree", "createCommit"} ) =>
                /\ err'[r].kind = "Upstream"
                /\ refs' = refs
                /\ Branch(r) # MainBranch => refs[Branch(r)] = latestCommitSha[r]
                /\ createRefErr[r] = "none" => latestCommitSha[r] = baseSha[r]
                /\ IsAncestor(latestCommitSha[r], refs[Branch(r)])
                /\ \A path \in Paths :
                       /\ path \in DOMAIN TreeOf(refs[Branch(r)])
                              <=> path \in DOMAIN baseTreeSha[r]
                       /\ path \in DOMAIN baseTreeSha[r] =>
                              TreeOf(refs[Branch(r)])[path] = baseTreeSha[r][path]]_vars
    /\ [](\A r \in Runs :
            /\ (pc[r] = "failed"
                  /\ err[r].at \in {"createBlob", "createTree", "createCommit"}) =>
                   /\ commitSha[r] = NoSha
                   /\ err[r].at # "createCommit" => treeSha[r] = NoTree
                   /\ existing[r] = 0
            /\ treeSha[r] # NoTree => HoldsFiles(treeSha[r], Files(r))
            /\ commitSha[r] # NoSha => HoldsFiles(TreeOf(commitSha[r]), Files(r)))

\* One of two blobs was created, then the other failed: the branch is where
\* it was and holds neither file.
C6_Witness ==
    \E r \in Runs :
        /\ pc[r] = "failed"
        /\ err[r].at = "createBlob"
        /\ blobShas[r] # <<>>
        /\ DOMAIN blobShas[r] # DOMAIN Files(r)
        /\ Branch(r) = DocsBranch
        /\ refs[DocsBranch] = latestCommitSha[r]
        /\ \A path \in DOMAIN Files(r) : path \notin DOMAIN TreeOf(refs[DocsBranch])

\* C7: when baseBranch does not exist the run fails at its first request,
\* before any write: that step changes nothing on the host, and the run has
\* created no branch, blob, tree or commit, moved no ref and looked up or
\* created no pull request.
C7_MissingBase ==
    /\ [][\A r \in Runs :
            (Leaves(r, "getBaseRef") /\ context[r].baseBranch \notin DOMAIN refs) =>
                /\ pc'[r] = "failed"
                /\ err'[r].at = "getBaseRef"
                /\ err'[r].kind \in {"NotFound", "Upstream"}
                /\ UNCHANGED hostVars]_vars
    /\ [](\A r \in Runs :
            (pc[r] = "failed" /\ err[r].at = "getBaseRef") =>
                /\ baseSha[r] = NoSha
                /\ createRefErr[r] = "none"
                /\ latestCommitSha[r] = NoSha
                /\ pending[r] = {}
                /\ blobShas[r] = <<>>
                /\ treeSha[r] = NoTree
                /\ commitSha[r] = NoSha
                /\ existing[r] = 0
                /\ result[r] = NoResult)

\* A run failed with not-found on a missing base branch and its branch was
\* not created.
C7_Witness ==
    \E r \in Runs :
        /\ pc[r] = "failed"
        /\ err[r] = [kind |-> "NotFound", at |-> "getBaseRef"]
        /\ context[r].baseBranch \notin DOMAIN refs
        /\ Branch(r) \notin DOMAIN refs
        /\ Len(commits) = 1
        /\ Len(pulls) = 1

\* C8: branch-already-exists is the only error of createRef the run swallows:
\* when createRef fails for another reason the run aborts at that step.
C8_OnlyExistsSwallowed ==
    \A r \in Runs :
        createRefErr[r] = "other" =>
            (pc[r] = "failed" /\ err[r].at = "createRef")

\* C9: the ref update is last-write-wins without detection: an updateRef
\* that reaches the host moves the branch to the run's commit whatever the
\* head is by then, and when two runs read the same head the commit of the
\* one that updated first is not an ancestor of the final head, whose tree
\* holds on the first run's own paths what the tree read held.
C9_LastWriteWins ==
    /\ [][\A r \in Runs :
            Leaves(r, "updateRef") =>
                \/ pc'[r] = "listPulls" /\ refs'[Branch(r)] = commitSha[r]
                \/ pc'[r] = "failed" /\ err'[r].kind = "Upstream"]_vars
    /\ [](\A p, q \in Runs :
            ( /\ p # q
              /\ CommitStepDone(p)
              /\ CommitStepDone(q)
              /\ Branch(p) = Branch(q)
              /\ latestCommitSha[p] = latestCommitSha[q]
              /\ refs[Branch(q)] = commitSha[q] ) =>
                /\ ~IsAncestor(commitSha[p], refs[Branch(q)])
                /\ \A path \in (DOMAIN Files(p)) \ (DOMAIN Files(q)) :
                       /\ path \in DOMAIN TreeOf(refs[Branch(q)])
                              <=> path \in DOMAIN baseTreeSha[q]
                       /\ path \in DOMAIN baseTreeSha[q] =>
                              TreeOf(refs[Branch(q)])[path] = baseTreeSha[q][path])

\* Two runs read the same head; both updated the ref; the file of the first
\* is not in the final tree.
C9_Witness ==
    \E p, q \in Runs :
        /\ p # q
        /\ pc[p] = "done"
        /\ pc[q] = "done"
        /\ Branch(p) = Branch(q)
        /\ latestCommitSha[p] = latestCommitSha[q]
        /\ refs[Branch(q)] = commitSha[q]
        /\ \E path \in DOMAIN Files(p) : path \notin DOMAIN TreeOf(refs[Branch(q)])

C12_CreatesOne ==
    /\ [][\A r \in Runs :
            ( /\ Leaves(r, "listPulls")
              /\ OpenPulls(Branch(r)) = {}
              /\ pc'[r] # "failed" ) =>
                (pc'[r] = "createPull" /\ pulls' = pulls)]_vars
    /\ [][\A r \in Runs :
            (Leaves(r, "createPull") /\ pc'[r] # "failed") =>
                /\ pc'[r] = "done"
                /\ pulls' = Append(pulls,
                                   [head |-> context[r].branchName,
                                    base |-> context[r].baseBranch,
                                    title |-> context[r].prTitle,
                                    body |-> context[r].prBody,
                                    state |-> "open"])
                /\ result'[r] = [prNumber |-> Len(pulls) + 1,
                                 prUrl |-> HtmlUrl(Len(pulls) + 1),
                                 branchName |-> context[r].branchName]]_vars
    /\ [][\A r \in Runs :
            (Leaves(r, "createPull") /\ pc'[r] = "failed") =>
                /\ pulls' = pulls
                /\ context[r].branchName # context[r].baseBranch =>
                       err'[r].kind = "Upstream"]_vars

\* The only pull request of the branch was closed; the run created a second
\* one and returned it.
C12_Witness ==
    \E r \in Runs :
        /\ pc[r] = "done"
        /\ existing[r] = 0
        /\ pulls[1].state = "closed"
        /\ pulls[1].head = Branch(r)
        /\ result[r].prNumber = 2
        /\ result[r].prUrl = HtmlUrl(2)
        /\ Len(pulls) = 2
        /\ pulls[2].state = "open"
        /\ pulls[2].head = Branch(r)

\* ---------------------------------------------------------------------------
\* Release lists, as the claims speak of them
\* ---------------------------------------------------------------------------

\* The positions of the releases tagged tagName (at most one).
Targets == { i \in 1..Len(releases) : releases[i].tag_name = tagName }

\* The positions of the published releases.
PublishedAt == { i \in 1..Len(releases) :
                   releases[i].published_at # Unpublished }

TargetPublished == Targets \cap PublishedAt # {}

\* Release i comes before release j in ascending publishedAt order, releases
\* published at the same date being taken in listing order.
Before(i, j) ==
    \/ releases[i].published_at < releases[j].published_at
    \/ releases[i].published_at = releases[j].published_at /\ i < j

\* The published releases before the target.
Earlier == { i \in PublishedAt : \E t \in Targets : Before(i, t) }

CompareSent ==
    \E k \in 1..Len(requests) :
        requests[k].api = "compareCommitsWithBasehead"

\* C15: if the release tagged tagName is published and no published release
\* comes before it in ascending publishedAt order (equal dates in listing
\* order), the call sends no compare request and returns previousTag = null
\* and diffFiles = [].
C15_FirstHasNoPrevious ==
    (TargetPublished /\ Earlier = {}) =>
        /\ fpc # "compare"
        /\ ~CompareSent
        /\ fpc = "done" =>
               /\ releaseContext.previousTag = Null
               /\ releaseContext.diffFiles = <<>>
               /\ releaseContext.currentTag = tagName

\* The target is first although another release was published the same day
\* and two releases are published in all.
C15_Witness ==
    /\ fpc = "done"
    /\ TargetPublished
    /\ Earlier = {}
    /\ \E t \in Targets, j \in PublishedAt :
           j > t /\ releases[j].published_at = releases[t].published_at
    /\ releaseContext.previousTag = Null

\* The tag of the release at position i.
TagAt(i) == releases[i].tag_name

\* C16, as stated: with two or more published releases and a published
\* target, previousTag is the tag of the release with the largest publishedAt
\* strictly less than the target's (of several such, the one listed last).
C16_LargestStrictlyLess ==
    (fpc = "done" /\ TargetPublished /\ Cardinality(PublishedAt) >= 2) =>
        \A t \in Targets :
            LET cands == { i \in PublishedAt :
                             releases[i].published_at <
                                 releases[t].published_at }
            IN  cands # {} =>
                    \E i \in cands :
                        /\ releaseContext.previousTag = TagAt(i)
                        /\ \A j \in cands :
                               \/ releases[j].published_at <
                                      releases[i].published_at
                               \/ /\ releases[j].published_at =
                                         releases[i].published_at
                                  /\ j <= i

\* C16, amended: previousTag is the tag of the last of the published releases
\* that come before the target, a release published at the target's own date
\* and listed before it being one of them; it is null when there is none.
C16_LargestBefore ==
    (fpc = "done" /\ TargetPublished /\ Cardinality(PublishedAt) >= 2) =>
        IF Earlier = {}
        THEN releaseContext.previousTag = Null
        ELSE \E i \in Earlier :
                 /\ releaseContext.previousTag = TagAt(i)
                 /\ \A j \in Earlier : j = i \/ Before(j, i)

\* The previous release was published at the same date as the target, and an
\* older release exists that was not chosen.
C16_Witness ==
    /\ fpc = "done"
    /\ \E t \in Targets, i, j \in PublishedAt :
           /\ releaseContext.previousTag = TagAt(i)
           /\ releases[i].published_at = releases[t].published_at
           /\ i < t
           /\ releases[j].published_at < releases[t].published_at

\* C17, as stated: a returned context has previousTag null if and only if
\* diffFiles is empty.
C17_NullIffEmpty ==
    fpc = "done" =>
        (releaseContext.previousTag = Null <=>
             releaseContext.diffFiles = <<>>)

\* C17, amended: a returned context with previousTag null has diffFiles
\* empty, and diffFiles is non-empty only when a published release comes
\* before the target and a comparison was requested; a non-null previousTag
\* can come with empty diffFiles.
C17_NullImpliesEmpty ==
    fpc = "done" =>
        /\ releaseContext.previousTag = Null =>
               releaseContext.diffFiles = <<>>
        /\ releaseContext.diffFiles # <<>> =>
               (Earlier # {} /\ CompareSent)
        /\ releaseContext.previousTag = Null <=> ~CompareSent

\* The comparison was made and reported no file.
C17_Witness ==
    /\ fpc = "done"
    /\ releaseContext.previousTag # Null
    /\ CompareSent
    /\ releaseContext.diffFiles = <<>>

\* C18: if no release of the fetched list is tagged tagName, the call fails
\* with an error whose message names the tag, returns no context and sends
\* no compare request.
C18_NotFound ==
    ( /\ fpc # "idle"
      /\ \A i \in 1..Len(Page(releases)) :
             Page(releases)[i].tag_name # tagName ) =>
        /\ fpc \in {"listReleases", "failed"}
        /\ releaseContext = NoReleaseContext
        /\ ~CompareSent
        /\ (fpc = "failed" /\ fetchErr.kind # "Upstream") =>
               /\ fetchErr.kind = "Error"
               /\ fetchErr.message = "Release " \o tagName \o " not found"

\* Other releases exist, published ones among them, and the call failed for
\* the missing tag.
C18_Witness ==
    /\ fpc = "failed"
    /\ Targets = {}
    /\ Cardinality(PublishedAt) >= 2
    /\ fetchErr.kind = "Error"
    /\ fetchErr.message = "Release " \o tagName \o " not found"

\* C19: if the release tagged tagName exists and is not published, the call
\* sends no compare request and, unless listReleases is rejected, returns
\* previousTag = null and diffFiles = [], whatever releases are published;
\* and a previousTag is always the tag of a published release.
C19_UnpublishedTarget ==
    /\ (Targets # {} /\ ~TargetPublished) =>
           /\ fpc # "compare"
           /\ ~CompareSent
           /\ fpc = "failed" => fetchErr.kind = "Upstream"
           /\ fpc = "done" =>
                  /\ releaseContext.previousTag = Null
                  /\ releaseContext.diffFiles = <<>>
    /\ (fpc = "done" /\ releaseContext.previousTag # Null) =>
           \E i \in PublishedAt : releaseContext.previousTag = TagAt(i)
    /\ prev # Null => \E i \in PublishedAt : prev = TagAt(i)

\* The target is a draft listed after another draft, and two releases are
\* published.
C19_Witness ==
    /\ fpc = "done"
    /\ \E t \in Targets :
           /\ releases[t].published_at = Unpublished
           /\ t > 1
           /\ releases[1].published_at = Unpublished
    /\ Cardinality(PublishedAt) >= 1
    /\ releaseContext.previousTag = Null

\* The arrangements of the published releases in ascending publishedAt order
\* in which releases published at the same date keep their listing order.
StableOrders ==
    { q \in [1..Cardinality(PublishedAt) -> PublishedAt] :
        /\ \A a, b \in DOMAIN q : q[a] = q[b] => a = b
        /\ \A a, b \in DOMAIN q :
               a < b =>
                   /\ releases[q[a]].published_at <= releases[q[b]].published_at
                   /\ releases[q[a]].published_at = releases[q[b]].published_at
                          => q[a] < q[b] }

\* C20: the published releases have exactly one stable ascending arrangement,
\* and when the target is in it and not first, previousTag is the tag just
\* before the target in that arrangement: a function of the release list and
\* the tag alone.
C20_StablePredecessor ==
    /\ Cardinality(StableOrders) = 1
    /\ (fpc = "done" /\ TargetPublished) =>
           \A q \in StableOrders : \A a \in DOMAIN q :
               (q[a] \in Targets /\ a > 1) =>
                   releaseContext.previousTag = TagAt(q[a - 1])

\* Two older releases were published at the same date; the one listed last
\* of the two is the previous release.
C20_Witness ==
    /\ fpc = "done"
    /\ \E t \in Targets, i, j \in PublishedAt :
           /\ i < j
           /\ releases[i].published_at = releases[j].published_at
           /\ releases[j].published_at < releases[t].published_at
           /\ releaseContext.previousTag = TagAt(j)

\* ---------------------------------------------------------------------------
\* Runs of the workflow, as the claims speak of them
\* ---------------------------------------------------------------------------

\* Run r of execute created a pull request.
Created(r) == pc[r] = "done" /\ existing[r] = 0

\* The pull requests of the host the workflow run did not create.
OtherPulls == 1 + (IF Created(EarlierRun) THEN 1 ELSE 0)

\* C13, as stated: a workflow run that has failed, at whatever step, created
\* no pull request and posted no message.
C13_FailureLeavesNothing ==
    stage = "failed" =>
        /\ ~Created(FlowRun)
        /\ Len(pulls) = OtherPulls
        /\ slack = <<>>

\* C13, amended: a workflow run that has failed posted no message; if it
\* failed at the release context, at drafting or inside the pull-request
\* step it created no pull request; if it failed at the notification, the
\* pull request its pull-request step created or found is still there, open.
C13_FailureBeforePull ==
    stage = "failed" =>
        /\ slack = <<>>
        /\ output = NoOutput
        /\ flowErr \in {"fetch", "draft", "createPr", "notify"}
        /\ flowErr # "notify" =>
               (~Created(FlowRun) /\ Len(pulls) = OtherPulls)
        /\ flowErr \in {"fetch", "draft"} => pc[FlowRun] = "idle"
        /\ flowErr = "notify" =>
               /\ pc[FlowRun] = "done"
               /\ result[FlowRun].prNumber \in OpenPulls(BranchName(init))
               /\ Len(pulls) = OtherPulls + (IF Created(FlowRun) THEN 1 ELSE 0)

\* The run failed at the notification after its pull-request step had
\* created a pull request.
C13_Witness ==
    /\ stage = "failed"
    /\ flowErr = "notify"
    /\ Created(FlowRun)
    /\ pulls[Len(pulls)].head = BranchName(init)
    /\ pulls[Len(pulls)].state = "open"
    /\ slack = <<>>

\* C14: a workflow run that has succeeded returns as prUrl the URL its
\* pull-request step returned; that pull request is the one open pull
\* request with the run's branch as head; and the one message posted, to the
\* run's channel, carries that URL.
C14_OneReference ==
    stage = "done" =>
        /\ pc[FlowRun] = "done"
        /\ output.prUrl = result[FlowRun].prUrl
        /\ output.prUrl = HtmlUrl(result[FlowRun].prNumber)
        /\ OpenPulls(BranchName(init)) = {result[FlowRun].prNumber}
        /\ result[FlowRun].branchName = BranchName(init)
        /\ slack = <<[channel |-> init.slackChannel,
                      text |-> SlackText(init, output.prUrl)]>>

\* The run succeeded with the pull request an earlier run had opened for the
\* branch, and created none.
C14_Witness ==
    /\ stage = "done"
    /\ Created(EarlierRun)
    /\ existing[FlowRun] # 0
    /\ output.prUrl = HtmlUrl(existing[FlowRun])
    /\ Len(pulls) = 2
    /\ Len(slack) = 1

\* The compare requests sent, and the listReleases requests sent.
CompareRequests ==
    { k \in 1..Len(requests) : requests[k].api = "compareCommitsWithBasehead" }
ListRequests == { k \in 1..Len(requests) : requests[k].api = "listReleases" }

\* C21: when a previous tag exists the call sends exactly one compare
\* request, the last of its requests, for previousTag...tagName and never for
\* tagName...previousTag, and a returned diffFiles has one entry per file of
\* the answer, in the answer's order.
C21_OneComparison ==
    /\ (fpc \in {"done", "failed"} /\ prev # Null) =>
           /\ CompareRequests = {Len(requests)}
           /\ requests[Len(requests)].basehead = prev \o "..." \o tagName
           /\ requests[Len(requests)].basehead # tagName \o "..." \o prev
           /\ requests[Len(requests)].per_page = 250
    /\ (fpc = "done" /\ prev # Null) =>
           /\ releaseContext.previousTag = prev
           /\ LET files == IF "files" \in DOMAIN compare
                           THEN compare.files ELSE <<>>
              IN  /\ Len(releaseContext.diffFiles) = Len(files)
                  /\ \A i \in 1..Len(files) :
                         /\ releaseContext.diffFiles[i].filename =
                                files[i].filename
                         /\ "status" \in DOMAIN files[i] =>
                                releaseContext.diffFiles[i].status =
                                    files[i].status
                         /\ "status" \notin DOMAIN files[i] =>
                                releaseContext.diffFiles[i].status = "modified"

\* The comparison answered two files, the first without status or counts;
\* both are returned, in that order.
C21_Witness ==
    /\ fpc = "done"
    /\ releaseContext.previousTag # Null
    /\ "files" \in DOMAIN compare
    /\ Len(compare.files) = 2
    /\ Len(releaseContext.diffFiles) = 2
    /\ releaseContext.diffFiles[1] =
           [filename |-> "src/a.ts", status |-> "modified", additions |-> 0,
            deletions |-> 0, changes |-> 0]
    /\ releaseContext.diffFiles[2].filename = "README.md"

\* C22: when listReleases or the comparison is rejected the call fails with
\* that error and returns no context; each of the two requests is sent at
\* most once in a call, and none is sent after a failure.
C22_NoRetry ==
    /\ [](/\ Cardinality(ListRequests) <= 1
          /\ Cardinality(CompareRequests) <= 1
          /\ fpc = "failed" =>
                 /\ releaseContext = NoReleaseContext
                 /\ fetchErr.kind \in {"Upstream", "Error"}
                 /\ fetchErr.kind = "Upstream" =>
                        requests[Len(requests)].api =
                            (IF fetchErr.at = "compare"
                             THEN "compareCommitsWithBasehead"
                             ELSE "listReleases"))
    /\ [][fpc = "failed" => (requests' = requests /\ fpc' = "failed")]_vars

\* The comparison was rejected after listReleases had answered: two requests
\* in all, no context.
C22_Witness ==
    /\ fpc = "failed"
    /\ fetchErr.kind = "Upstream"
    /\ fetchErr.at = "compare"
    /\ Len(requests) = 2
    /\ releaseContext = NoReleaseContext

\* ---------------------------------------------------------------------------
\* Requests to the handler, as the claims speak of them
\* ---------------------------------------------------------------------------

\* The payload of the request, when its body is a JSON object.
HasPayload == request.body.kind = "object"
Payload == request.body.value

\* The request is a release event whose payload has action "published".
Accepted ==
    /\ request.event = "release"
    /\ HasPayload
    /\ "action" \in DOMAIN Payload
    /\ Payload.action = "published"

Answered(status, text) ==
    hpc = "responded" /\ response = [status |-> status, text |-> text]

\* C23, as stated: a run is started only for a release event with action
\* "published", and every other request is answered 200 "ignored" with no run
\* started.
C23_OnlyReleasePublished ==
    /\ started # <<>> => Accepted
    /\ (hpc = "responded" /\ ~Accepted) =>
           (Answered(200, "ignored") /\ started = <<>>)

\* C24, as stated: the input of every run the handler starts carries a
\* tagName, the tag of the release in the payload.
C24_TagPassed ==
    \A k \in 1..Len(started) :
        /\ "tagName" \in DOMAIN started[k]
        /\ ("release" \in DOMAIN Payload /\ "tag_name" \in DOMAIN Payload.release)
               => started[k].tagName = Payload.release.tag_name

C26_NoEmptyOwnerRepo ==
    /\ \A k \in 1..Len(started) :
           /\ started[k].owner \notin {Null, ""}
           /\ started[k].repo \notin {Null, ""}
    /\ ( /\ hpc = "responded"
          /\ Accepted
          /\ \/ "repository" \notin DOMAIN Payload
             \/ "full_name" \notin DOMAIN Payload.repository
             \/ Payload.repository.full_name \notin {<<"o", "/", "r">>} )
            => Answered(200, "ignored")

\* C27, as stated: the branch name is the same for the same repository, tag
\* and prefix, and for a fixed repository and prefix two different tags never
\* give the same branch name.
C27_UniquePerTag ==
    branchNames # <<>> =>
        (inits[1].tagName = inits[2].tagName <=> branchNames[1] = branchNames[2])

\* The stage that may follow a stage of a workflow run.
NextStage ==
    [idle |-> "fetch", fetch |-> "draft", draft |-> "createPr",
     createPr |-> "notify", notify |-> "done"]

\* C28: a workflow run goes through release context, drafting, pull-request
\* step and notification in that order, one at a time: a stage is entered
\* only when the one before has returned, the tools act only during their
\* own stage, the message is posted only when the pull-request step has
\* returned its reference, and nothing runs after a failure or the end.
C28_StagesInOrder ==
    /\ [][stage' # stage =>
            /\ stage \in DOMAIN NextStage
            /\ stage' \in {NextStage[stage], "failed"}
            /\ stage' = "failed" => stage # "idle"
            /\ stage' = "draft" => fpc = "done"
            /\ stage' = "createPr" =>
                   (drafted' \in Drafts /\ pc[FlowRun] = "idle")
            /\ stage' = "notify" =>
                   (pc[FlowRun] = "done" /\ result[FlowRun] # NoResult)
            /\ stage' = "done" => slack' # slack]_vars
    /\ [][fpc' # fpc => (stage' = "fetch" /\ stage \in {"idle", "fetch"})]_vars
    /\ [][pc'[FlowRun] # pc[FlowRun] =>
            (stage' = "createPr" /\ stage \in {"draft", "createPr"})]_vars
    /\ [][drafted' # drafted => (stage = "draft" /\ stage' = "createPr")]_vars
    /\ [][slack' # slack =>
            /\ stage = "notify" /\ stage' = "done"
            /\ pc[FlowRun] = "done"
            /\ result[FlowRun].prNumber \in 1..Len(pulls)]_vars
    /\ [][(stage = "failed" \/ stage = "done") =>
            /\ UNCHANGED <<flowVars, fetchVars, pulls>>
            /\ pc'[FlowRun] = pc[FlowRun]
            /\ pending'[FlowRun] = pending[FlowRun]]_vars

\* The run went through all four stages, the comparison included.
C28_Witness ==
    /\ stage = "done"
    /\ fpc = "done"
    /\ releaseContext.previousTag # Null
    /\ drafted \in Drafts
    /\ pc[FlowRun] = "done"
    /\ Len(slack) = 1

\* C29: in a run of execute the tree is requested only when every blob
\* creation has succeeded, the commit only after the tree, the ref update
\* only after the commit and the lookup only after the ref update; and the
\* tree depends on the files alone, not on the order the blob creations
\* completed in.
C29_RequestsInOrder ==
    /\ [][\A r \in Runs :
            (pc'[r] # pc[r] /\ pc'[r] # "failed" /\ pc[r] # "idle") =>
                << pc[r], pc'[r] >> \in
                    { <<"getBaseRef", "createRef">>,
                      <<"createRef", "getBranchRef">>,
                      <<"getBranchRef", "getCommit">>,
                      <<"getCommit", "createBlobs">>,
                      <<"createBlobs", "createCommit">>,
                      <<"createCommit", "updateRef">>,
                      <<"updateRef", "listPulls">>,
                      <<"listPulls", "createPull">>,
                      <<"listPulls", "done">>,
                      <<"createPull", "done">> }]_vars
    /\ [][\A r \in Runs :
            (pc[r] = "createBlobs" /\ pc'[r] = "createCommit") =>
                /\ pending[r] = {}
                /\ DOMAIN blobShas[r] = DOMAIN context[r].files
                /\ \A p \in DOMAIN context[r].files :
                       /\ blobShas[r][p] \in blobs
                       /\ treeSha'[r][p] = BlobOf(context[r].files[p])
                /\ \A p \in (DOMAIN treeSha'[r]) \ DOMAIN context[r].files :
                       p \in DOMAIN baseTreeSha[r] /\
                       treeSha'[r][p] = baseTreeSha[r][p]
                /\ treeSha'[r] \in trees']_vars
    /\ [][\A r \in Runs :
            /\ (pc[r] = "createCommit" /\ pc'[r] = "updateRef") =>
                   (treeSha[r] \in trees /\
                    commits'[commitSha'[r]].tree = treeSha[r])
            /\ (pc[r] = "updateRef" /\ pc'[r] = "listPulls") =>
                   (commitSha[r] \in 1..Len(commits) /\
                    refs'[context[r].branchName] = commitSha[r])
            /\ existing'[r] # existing[r] => pc[r] = "listPulls"]_vars

\* Of two files the second one's blob is stored and the first one's is still
\* in flight, in one run; the other run has built its tree of two files and
\* gone on to look up the pull request.
C29_Witness ==
    \E r, q \in Runs :
        /\ pc[r] = "createBlobs"
        /\ pending[r] = {"a.md"}
        /\ DOMAIN blobShas[r] = {"b.md"}
        /\ pc[q] \in {"listPulls", "createPull", "done"}
        /\ DOMAIN context[q].files = {"a.md", "b.md"}
        /\ treeSha[q]["a.md"] = BlobOf(context[q].files["a.md"])
        /\ treeSha[q]["b.md"] = BlobOf(context[q].files["b.md"])

\* Run r takes a step.
Acts(r) ==
    \/ pc'[r] # pc[r]
    \/ pending'[r] # pending[r]
    \/ blobShas'[r] # blobShas[r]

\* C30: a step of a run whose branchName differs from its baseBranch leaves
\* the baseBranch ref as it is, and every other ref but that of branchName;
\* this holds for failing steps and with two runs interleaved.
C30_BaseUntouched ==
    [][\A r \in Runs :
         (Acts(r) /\ context'[r].branchName # context'[r].baseBranch) =>
             /\ context'[r].baseBranch \in DOMAIN refs <=>
                    context'[r].baseBranch \in DOMAIN refs'
             /\ \A b \in (DOMAIN refs') \ {context'[r].branchName} :
                    b \in DOMAIN refs /\ refs'[b] = refs[b]
             /\ DOMAIN refs \subseteq DOMAIN refs']_vars

\* A run has moved its branch to its new commit; the base branch is where the
\* run read it, behind the branch; the other run failed.
C30_Witness ==
    \E r, q \in Runs :
        /\ pc[r] = "done"
        /\ pc[q] = "failed"
        /\ context[r].branchName # context[r].baseBranch
        /\ refs[context[r].branchName] = commitSha[r]
        /\ refs[context[r].baseBranch] = baseSha[r]
        /\ baseSha[r] # commitSha[r]

\* ---------------------------------------------------------------------------
\* The commit step and the pull-request step, continued
\* ---------------------------------------------------------------------------
\* Nothing but the runs moves branch b: every branch but the base branch,
\* and the base branch as long as nobody has pushed to it.
OnlyRunsMove(b) == b = MainBranch => pushes' = 0

\* C31: when runs on a branch do not overlap and nothing else moves the
\* branch, every force ref update is a fast-forward: the head before a
\* successful ref update is the one parent of the head after it, and no step
\* makes a commit that was reachable from the branch unreachable.
C31_FastForward ==
    /\ [][\A r \in Runs :
            ( /\ Leaves(r, "updateRef")
              /\ pc'[r] = "listPulls"
              /\ OnlyRunsMove(Branch(r)) ) =>
                /\ refs'[Branch(r)] = commitSha[r]
                /\ commits[refs'[Branch(r)]].parents = <<refs[Branch(r)]>>
                /\ IsAncestor(refs[Branch(r)], refs'[Branch(r)])]_vars
    /\ [][\A b \in DOMAIN refs :
            OnlyRunsMove(b) =>
                /\ b \in DOMAIN refs'
                /\ Ancestors(refs[b]) \subseteq Ancestors(refs[b])']_vars

\* Two runs in turn on the docs branch: the branch holds the base commit, the
\* first run's commit and the second's on top.
C31_Witness ==
    \E p, q \in Runs :
        /\ Successive(p, q)
        /\ pc[p] = "done"
        /\ pc[q] = "done"
        /\ Branch(q) = DocsBranch
        /\ refs[DocsBranch] = commitSha[q]
        /\ Ancestors(refs[DocsBranch]) = {1, commitSha[p], commitSha[q]}
        /\ Cardinality(Ancestors(refs[DocsBranch])) = 3

\* Commit c exists on the host with its tree and every blob of its tree.
Complete(c) ==
    /\ c \in 1..Len(commits)
    /\ TreeOf(c) \in trees
    /\ \A path \in DOMAIN TreeOf(c) : TreeOf(c)[path] \in blobs

\* C32: whatever the interleaving of runs and wherever a run fails, every
\* branch ref points at a commit that exists on the host with its tree and all
\* the blobs of its tree, and a ref update moves the branch to a commit
\* that was created, with its tree, before the update.
C32_RefIsComplete ==
    /\ [](\A b \in DOMAIN refs : Complete(refs[b]))
    /\ [][\A r \in Runs :
            (Leaves(r, "updateRef") /\ pc'[r] = "listPulls") =>
                /\ Complete(commitSha[r])
                /\ TreeOf(commitSha[r]) = treeSha[r]
                /\ HoldsFiles(treeSha[r], Files(r))]_vars

\* One run failed at its ref update, after creating its commit, while the
\* other was under way; the branch is at the other run's commit.
C32_Witness ==
    \E r, q \in Runs :
        /\ pc[r] = "failed"
        /\ err[r].at = "updateRef"
        /\ commitSha[r] # NoSha
        /\ latestCommitSha[r] = latestCommitSha[q]
        /\ pc[q] = "done"
        /\ Branch(q) = DocsBranch
        /\ Branch(r) = DocsBranch
        /\ refs[DocsBranch] = commitSha[q]
        /\ Files(q) # <<>>

\* Run r sent pulls.create and the host answered it, with the pull request
\* or with a refusal.
CreateIssued(r) ==
    \/ Created(r)
    \/ pc[r] = "failed" /\ err[r] = [kind |-> "Unprocessable", at |-> "createPull"]

\* C33: for every interleaving of two runs with the same head branch (other
\* than their base branch), at most one of them issues a create-pull-request
\* request, and at most one open pull request has that head.
C33_OneCreateRequest ==
    \A p, q \in Runs :
        ( /\ p # q
          /\ Branch(p) = Branch(q)
          /\ Branch(p) # context[p].baseBranch
          /\ Branch(q) # context[q].baseBranch ) =>
            /\ ~(CreateIssued(p) /\ CreateIssued(q))
            /\ Cardinality(OpenPulls(Branch(p))) <= 1

\* C34: the commit step is idempotent in the file set: a run right after a
\* run with the same files leaves the branch's tree as the first left it, on
\* a new commit whose parent is the first run's commit; and when two runs in
\* turn write the same path, the tree holds the content of the later one.
C34_IdempotentTree ==
    \A p, q \in Runs :
        (Successive(p, q) /\ CommitStepDone(q)) =>
            /\ Files(p) = Files(q) =>
                   /\ TreeOf(commitSha[q]) = TreeOf(commitSha[p])
                   /\ commitSha[q] # commitSha[p]
                   /\ commits[commitSha[q]].parents = <<commitSha[p]>>
                   /\ Ancestors(commitSha[q]) =
                          Ancestors(commitSha[p]) \cup {commitSha[q]}
            /\ \A path \in (DOMAIN Files(p)) \cap (DOMAIN Files(q)) :
                   TreeOf(commitSha[q])[path] = BlobOf(Files(q)[path])
            /\ Branch(q) # MainBranch => refs[Branch(q)] = commitSha[q]

\* The same file was committed twice in turn: two commits, one tree.
C34_Witness ==
    \E p, q \in Runs :
        /\ Successive(p, q)
        /\ CommitStepDone(q)
        /\ Files(p) = Files(q)
        /\ Files(q) # <<>>
        /\ refs[Branch(q)] = commitSha[q]
        /\ TreeOf(refs[Branch(q)]) = TreeOf(commitSha[p])
        /\ HoldsFiles(TreeOf(refs[Branch(q)]), Files(q))

\* ---------------------------------------------------------------------------
\* The example workflows
\* ---------------------------------------------------------------------------
\* C35: the approval step completes without suspending exactly when
\* amount <= 100, auto-approved by 'system'; when amount > 100 it suspends and
\* the processing step does not run until a resume supplies a decision; the
\* result is then 'approved' exactly when the decision has approved = true,
\* 'rejected' otherwise, with autoApproved = false.
C35_ApprovalThreshold ==
    /\ [][(epc = "approval" /\ epc' # "approval") =>
            IF expense.amount <= 100
            THEN /\ epc' = "process-expense"
                 /\ approval'.approved
                 /\ approval'.autoApproved
                 /\ approval'.approverName = "system"
            ELSE /\ epc' = "suspended"
                 /\ approval' = Undefined
                 /\ expenseResult' = Undefined]_vars
    /\ [][epc = "suspended" =>
            /\ expense.amount > 100
            /\ epc' \in {"suspended", "process-expense"}
            /\ expenseResult' = Undefined
            /\ epc' = "process-expense" =>
                   /\ approval' # Undefined
                   /\ Only(approval', {"approved", "approverName"}) \in
                          [approved : BOOLEAN, approverName : {"m1", "m2"}]
                   /\ approval'.autoApproved = FALSE]_vars
    /\ [](epc = "done" =>
            /\ expenseResult.status \in {"approved", "rejected"}
            /\ expenseResult.status = "approved" <=> approval.approved
            /\ expenseResult.processedBy = approval.approverName
            /\ expense.amount > 100 <=> approval.autoApproved = FALSE
            /\ expense.amount > 100 <=> suspendPayload # Undefined)

\* An expense of 101 was suspended, resumed with a refusal and rejected.
C35_Witness ==
    /\ epc = "done"
    /\ expense.amount = 101
    /\ suspendPayload # Undefined
    /\ approval.approved = FALSE
    /\ approval.autoApproved = FALSE
    /\ expenseResult.status = "rejected"

\* C36: for every maxRetries >= 1 and every sequence of attempt outcomes the
\* loop ends after at most maxRetries executions of the attempt step: by a
\* success, which the formatter reports with attempts <= maxRetries, or by the
\* attempt step throwing at the maxRetries-th failure; no attempt is run
\* beyond maxRetries.
C36_BoundedRetries ==
    /\ [](loopInput.maxRetries >= 1 =>
            /\ runCount <= loopInput.maxRetries
            /\ lpc = "attempt-api-call" => runCount < loopInput.maxRetries
            /\ lpc \in {"format-result", "done"} =>
                   /\ attempt.success
                   /\ attempt.attemptNumber = runCount
            /\ lpc = "done" =>
                   /\ loopResult.success
                   /\ loopResult.attempts = runCount
                   /\ loopResult.attempts <= loopInput.maxRetries
            /\ lpc = "failed" =>
                   /\ runCount = loopInput.maxRetries
                   /\ loopResult = Undefined
                   /\ loopError = <<"API call failed after ",
                                    loopInput.maxRetries, " attempts">>)
    /\ <>(lpc \in {"done", "failed"})

\* Three attempts were allowed and the third failure threw.
C36_Witness ==
    /\ lpc = "failed"
    /\ loopInput.maxRetries = 3
    /\ runCount = 3
    /\ attempt.attemptNumber = 2
    /\ attempt.success = FALSE

\* C37: the three conditions of the branch workflow partition the order
\* values: for every subtotal exactly one branch runs, small-order below 50,
\* medium-order from 50 to below 200, large-order from 200 on, and the total of
\* the result is the subtotal plus the shipping of that branch.
C37_BranchesPartition ==
    bpc = "done" =>
        LET s == calculated.subtotal
            id == CHOOSE id \in DOMAIN branchResult : TRUE
        IN  /\ Cardinality(DOMAIN branchResult) = 1
            /\ s < 5000 <=> id = "small-order"
            /\ (5000 <= s /\ s < 20000) <=> id = "medium-order"
            /\ s >= 20000 <=> id = "large-order"
            /\ branchResult[id].subtotal = s
            /\ branchResult[id].shipping =
                   CASE id = "small-order" -> 599
                     [] id = "medium-order" -> 299
                     [] id = "large-order" -> 0
            /\ branchResult[id].total = s + branchResult[id].shipping

\* An order of exactly $50 went to the medium branch alone.
C37_Witness ==
    /\ bpc = "done"
    /\ calculated.subtotal = 5000
    /\ DOMAIN branchResult = {"medium-order"}
    /\ branchResult["medium-order"].total = 5299

\* The run of the error-handling workflow has ended.
ErrorRunEnded == xpc \in {"bailed", "done", "failed"}

\* When requestCount >= 100 the rate-limit step bails and neither fetch-data
\* nor process-data is ever executed.
BailsAtLimit ==
    errorInput.requestCount >= 100 =>
        /\ xpc \in {"map", "check-rate-limit", "bailed"}
        /\ fetchRuns = 0
        /\ processRuns = 0
        /\ xpc = "bailed" => rateLimit.allowed = FALSE

\* C38, as claimed: when requestCount >= 100 the rate-limit step bails and
\* fetch-data and process-data are never executed; when requestCount < 100
\* fetch-data is executed at least once and at most 1 + 3 times before the run
\* fails.
C38_AtMostFourFetches ==
    /\ BailsAtLimit
    /\ errorInput.requestCount < 100 =>
           /\ xpc # "bailed"
           /\ ErrorRunEnded => fetchRuns >= 1
           /\ fetchRuns <= 1 + 3

\* C38, amended: when requestCount >= 100 the rate-limit step bails and
\* fetch-data and process-data are never executed; when requestCount < 100
\* fetch-data is executed at least once, at most 1 + 3 times in one execution
\* of main-processing, and main-processing is executed at most 1 + 2 times:
\* the run fails after 12 executions of fetch-data.
C38_FetchesPerMainRun ==
    /\ BailsAtLimit
    /\ errorInput.requestCount < 100 =>
           /\ xpc # "bailed"
           /\ ErrorRunEnded => fetchRuns >= 1
           /\ fetchTries <= 1 + 3
           /\ mainTries <= 1 + 2
           /\ fetchRuns <= (1 + 2) * (1 + 3)
           /\ xpc = "failed" => fetchRuns = (1 + 2) * (1 + 3)
           /\ xpc = "done" => processRuns = 1

\* Every fetch failed: the run failed after twelve executions of fetch-data.
C38_Witness ==
    /\ xpc = "failed"
    /\ errorInput.requestCount = 99
    /\ fetchRuns = 12
    /\ mainTries = 3
    /\ processRuns = 0

\* C39: in the guessing workflow the loop suspends for input before every
\* guess, ends only on a resume whose guess equals the secret number, and the
\* summary is produced only then, with won = true and totalGuesses the number
\* of guesses submitted over the whole run: each wrong guess adds exactly one
\* to the count and never ends the game.
C39_GameEndsOnCorrectGuess ==
    /\ [][gpc = "game-loop" => gpc' = "suspended"]_vars
    /\ [][guesses' # guesses =>
            LET guess == guesses'[Len(guesses')]
            IN  /\ gpc = "suspended"
                /\ guesses' = Append(guesses, guess)
                /\ game'.guessCount = game.guessCount + 1
                /\ game'.lastGuess = guess
                /\ game'.secretNumber = game.secretNumber
                /\ IF guess = game.secretNumber
                   THEN gpc' = "game-summary" /\ game'.isCorrect
                   ELSE gpc' = "game-loop" /\ ~game'.isCorrect]_vars
    /\ [](gpc # "initialize-game" =>
            /\ game.guessCount = Len(guesses)
            /\ suspends = Len(guesses) + (IF gpc = "suspended" THEN 1 ELSE 0)
            /\ gpc \in {"game-summary", "done"} <=>
                   \E i \in 1..Len(guesses) : guesses[i] = game.secretNumber
            /\ \A i \in 1..Len(guesses) :
                   guesses[i] = game.secretNumber => i = Len(guesses))
    /\ [](IF gpc = "done"
          THEN /\ summary.won
               /\ summary.totalGuesses = Len(guesses)
               /\ summary.secretNumber = guesses[Len(guesses)]
          ELSE summary = Undefined)

\* A guess too low, a guess too high, then the secret number: three guesses.
C39_Witness ==
    /\ gpc = "done"
    /\ Len(guesses) = 3
    /\ guesses[1] < game.secretNumber
    /\ guesses[2] > game.secretNumber
    /\ guesses[3] = game.secretNumber
    /\ suspends = 3
    /\ summary.won
    /\ summary.totalGuesses = 3

====
